---------------------------- MODULE Spec2Model ----------------------------
(***************************************************************************)
(* Model of the ReBAC authorization core (openfga): the Object/Tuple       *)
(* Codec, the Resource Catalog, the Permission Checker, the Role and Group *)
(* Services and the Org Lifecycle tuple builders, over a tuple store that  *)
(* is reached through the Tuple Store Gateway.                             *)
(*                                                                         *)
(* Program strings are TLA+ strings; they are taken apart with Len, SubSeq *)
(* and \o, so prefixes, separators and letter case are those of the code.  *)
(***************************************************************************)
EXTENDS Naturals, Sequences, FiniteSets, TLC

VARIABLES
    store,      \* the backend's tuple set: a set of TupleKey records
    enabled,    \* OpenFGAConfig.enabled
    store_id,   \* OpenFGAConfig.store_id ("" until bootstrap has set it)
    model_id,   \* OpenFGAConfig.model_id (None until bootstrap has set it)
    list_only_permitted,  \* OpenFGAConfig.list_only_permitted
    stores,     \* the backend's stores in listing order, where a specification
                \* follows bootstrap (<<>> elsewhere)
    last,       \* the operation that completed last: its arguments, result, gateway calls
    prev,       \* the operation completed before last, where a specification
                \* follows sequences of operations (NoOp elsewhere)
    inflight    \* the calls that have begun and not returned, where a
                \* specification follows concurrent callers (<<>> elsewhere)

vars == <<store, enabled, store_id, model_id, list_only_permitted, stores, last, prev, inflight>>

---------------------------------------------------------------------------
(* Strings *)

UpperAlpha == "ABCDEFGHIJKLMNOPQRSTUVWXYZ"
LowerAlpha == "abcdefghijklmnopqrstuvwxyz"

CharAt(s, i) == SubSeq(s, i, i)

to_lower_char(c) ==
    IF \E i \in 1..Len(UpperAlpha) : CharAt(UpperAlpha, i) = c
    THEN CharAt(LowerAlpha, CHOOSE i \in 1..Len(UpperAlpha) : CharAt(UpperAlpha, i) = c)
    ELSE c

to_upper_char(c) ==
    IF \E i \in 1..Len(LowerAlpha) : CharAt(LowerAlpha, i) = c
    THEN CharAt(UpperAlpha, CHOOSE i \in 1..Len(LowerAlpha) : CharAt(LowerAlpha, i) = c)
    ELSE c

RECURSIVE to_lowercase(_)
to_lowercase(s) ==
    IF Len(s) = 0 THEN "" ELSE to_lower_char(Head(s)) \o to_lowercase(Tail(s))

RECURSIVE to_uppercase(_)
to_uppercase(s) ==
    IF Len(s) = 0 THEN "" ELSE to_upper_char(Head(s)) \o to_uppercase(Tail(s))

eq_ignore_ascii_case(s, t) == to_lowercase(s) = to_lowercase(t)

starts_with(s, p) == Len(p) <= Len(s) /\ SubSeq(s, 1, Len(p)) = p

\* Option<T>: None is <<>>, Some(x) is <<x>>
None == <<>>
Some(x) == <<x>>

\* Some(rest) is modelled as <<rest>>, None as <<>>
strip_prefix(s, p) ==
    IF starts_with(s, p) THEN <<SubSeq(s, Len(p) + 1, Len(s))>> ELSE <<>>

\* str::split_once(':'): the split at the FIRST separator, <<>> when there is none
split_once(s, sep) ==
    IF \E i \in 1..Len(s) : CharAt(s, i) = sep
    THEN LET i == CHOOSE k \in 1..Len(s) :
                    /\ CharAt(s, k) = sep
                    /\ \A j \in 1..(k - 1) : CharAt(s, j) # sep
         IN  <<SubSeq(s, 1, i - 1), SubSeq(s, i + 1, Len(s))>>
    ELSE <<>>


\* byte order of the characters that occur in the model's strings (ASCII order)
AsciiOrder == "#-./0123456789:@ABCDEFGHIJKLMNOPQRSTUVWXYZ_abcdefghijklmnopqrstuvwxyz"

ord(c) == CHOOSE i \in 1..Len(AsciiOrder) : CharAt(AsciiOrder, i) = c

\* String's Ord: lexicographic by bytes, a proper prefix first
RECURSIVE str_lt(_, _)
str_lt(s, t) ==
    IF Len(t) = 0 THEN FALSE
    ELSE IF Len(s) = 0 THEN TRUE
    ELSE IF Head(s) = Head(t) THEN str_lt(Tail(s), Tail(t))
    ELSE ord(Head(s)) < ord(Head(t))

\* HashSet<String> -> Vec<String>, then Vec::sort
RECURSIVE sort(_)
sort(S) ==
    IF S = {} THEN <<>>
    ELSE LET m == CHOOSE x \in S : \A y \in S \ {x} : str_lt(x, y)
         IN  <<m>> \o sort(S \ {m})

Range(q) == { q[i] : i \in 1..Len(q) }

\* the order in which the backend returns a set of tuples: not specified, fixed per set
RECURSIVE SetToSeq(_)
SetToSeq(S) ==
    IF S = {} THEN <<>>
    ELSE LET x == CHOOSE y \in S : TRUE
         IN  <<x>> \o SetToSeq(S \ {x})

---------------------------------------------------------------------------
(* Object/Tuple Codec: model/schema.rs, types.rs *)

TupleKey(user, relation, object) ==
    [user |-> user, relation |-> relation, object |-> object]

org_type(org_id) == "org:" \o org_id
user_type(user_email) == "user:" \o user_email
role_type(org_id, role_name) == "role:" \o org_id \o "_" \o role_name
group_type(org_id, group_name) == "group:" \o org_id \o "_" \o group_name
\* resource_object putting the org into the object name
resource_object_with_org(org_id, resource_type, entity_id) ==
    resource_type \o ":" \o org_id \o "_" \o entity_id
resource_object(org_id, resource_type, entity_id) == resource_type \o ":" \o entity_id
resource_object_all(org_id, resource_type) == resource_type \o ":_all_" \o org_id

---------------------------------------------------------------------------
(* Resource Catalog: model/resources.rs *)

RESOURCE_TYPES ==
    { "user", "group", "role", "org",
      "stream", "logs", "metrics", "traces", "metadata", "index",
      "dfolder", "dashboard", "template", "savedviews",
      "afolder", "alert", "destination",
      "rfolder", "report",
      "function", "pipeline",
      "settings", "kv", "enrichment_table", "summary", "syslog-route",
      "passcode", "rumtoken", "service_accounts", "cipher_keys",
      "search_jobs", "action_scripts", "ratelimit", "ai", "re_patterns", "license",
      "templates", "functions", "reports", "destinations", "alert_folders",
      "serviceaccounts", "actionscripts", "cipherkeys" }

is_valid_resource_type_nocase(key) == to_lowercase(key) \in RESOURCE_TYPES

is_valid_resource_type(key) == key \in RESOURCE_TYPES

parse_object(object) == split_once(object, ":")

is_all_org_entity_exact(entity, org_id) ==
    entity = ("_all_" \o org_id) \/ entity = "_all"

is_all_org_entity(entity, org_id) ==
    entity = ("_all_" \o org_id) \/ entity = "_all" \/ starts_with(entity, "_all")

---------------------------------------------------------------------------
(* Permission: types.rs *)

\* from_method matching the method as it is written
from_method_case_sensitive(method, is_list) ==
    CASE method = "GET" /\ is_list -> "AllowList"
      [] method = "GET" -> "AllowGet"
      [] method = "POST" -> "AllowPost"
      [] method \in {"PUT", "PATCH"} -> "AllowPut"
      [] method = "DELETE" -> "AllowDelete"
      [] OTHER -> "AllowGet"

from_method(method, is_list) ==
    LET m == to_uppercase(method)
    IN  CASE m = "GET" /\ is_list -> "AllowList"
          [] m = "GET" -> "AllowGet"
          [] m = "POST" -> "AllowPost"
          [] m \in {"PUT", "PATCH"} -> "AllowPut"
          [] m = "DELETE" -> "AllowDelete"
          [] OTHER -> "AllowGet"

to_relation(permission) ==
    CASE permission = "AllowAll" -> "admin"
      [] permission = "AllowList" -> "can_list"
      [] permission = "AllowGet" -> "can_read"
      [] permission = "AllowPost" -> "can_create"
      [] permission = "AllowPut" -> "can_update"
      [] permission = "AllowDelete" -> "can_delete"

\* Permission::from_str: Some(permission) for the names it knows in either
\* spelling and any letter case, None otherwise
from_str(s) ==
    LET l == to_lowercase(s)
    IN  CASE l \in {"allowall", "allow_all"} -> Some("AllowAll")
          [] l \in {"allowlist", "allow_list"} -> Some("AllowList")
          [] l \in {"allowget", "allow_get"} -> Some("AllowGet")
          [] l \in {"allowpost", "allow_post"} -> Some("AllowPost")
          [] l \in {"allowput", "allow_put"} -> Some("AllowPut")
          [] l \in {"allowdelete", "allow_delete"} -> Some("AllowDelete")
          [] OTHER -> None

---------------------------------------------------------------------------
(* Tuple Store Gateway: client.rs.  A gateway call is recorded with what   *)
(* it was asked, whether a network request was sent, and its outcome.  The *)
(* backend's behaviour on one request is an input of the call.             *)

\* check without the store id guard: the request goes out in any case
client_check_no_guard(tuple_key, b) ==
    [kind |-> "check", key |-> tuple_key, sent |-> TRUE, resp |-> b]

\* OpenFGAClient::check.  b is the backend's answer: "allowed", "denied", or
\* "error" (connection failure, timeout, non-2xx).  Without a store id the
\* call fails with StoreNotFound before any request.
client_check(tuple_key, b) ==
    IF store_id = ""
    THEN [kind |-> "check", key |-> tuple_key, sent |-> FALSE, resp |-> "StoreNotFound"]
    ELSE [kind |-> "check", key |-> tuple_key, sent |-> TRUE, resp |-> b]


TupleKeyFilter(user, relation, object) ==
    [user |-> user, relation |-> relation, object |-> object]

\* equality on every field the filter gives: the backend's filter, and read's
\* in-memory retain
filter_matches(f, t) ==
    /\ (f.user = None \/ t.user = f.user[1])
    /\ (f.relation = None \/ t.relation = f.relation[1])
    /\ (f.object = None \/ t.object = f.object[1])

\* OpenFGAClient::read on store contents st; filter is an Option<TupleKeyFilter>.
\* A filter without object is not sent: everything is read and the filter is
\* applied in memory.  All pages are fetched; fail says that a request of this
\* read fails.
client_read(st, filter, fail) ==
    LET in_memory == filter # None /\ filter[1].object = None
        api_filter == IF in_memory THEN None ELSE filter
        memory_filter == IF in_memory THEN filter ELSE None
        all_tuples == IF api_filter = None THEN st
                      ELSE { t \in st : filter_matches(api_filter[1], t) }
        retained == IF memory_filter = None THEN all_tuples
                    ELSE { t \in all_tuples : filter_matches(memory_filter[1], t) }
    IN  IF store_id = ""
        THEN [kind |-> "read", filter |-> filter, api_filter |-> api_filter,
              sent |-> FALSE, resp |-> "StoreNotFound", tuples |-> <<>>]
        ELSE IF fail
        THEN [kind |-> "read", filter |-> filter, api_filter |-> api_filter,
              sent |-> TRUE, resp |-> "OpenFGA", tuples |-> <<>>]
        ELSE [kind |-> "read", filter |-> filter, api_filter |-> api_filter,
              sent |-> TRUE, resp |-> "ok", tuples |-> SetToSeq(retained)]

\* OpenFGAClient::write: one request carrying the writes and the deletes
client_write(writes, deletes, fail) ==
    IF store_id = ""
    THEN [kind |-> "write", writes |-> writes, deletes |-> deletes,
          sent |-> FALSE, resp |-> "StoreNotFound"]
    ELSE [kind |-> "write", writes |-> writes, deletes |-> deletes,
          sent |-> TRUE, resp |-> IF fail THEN "OpenFGA" ELSE "ok"]

\* OpenFGAClient::write as bootstrap calls it, after it has set
\* config.store_id to sid in the same run
client_write_at(sid, writes, deletes, fail) ==
    IF sid = ""
    THEN [kind |-> "write", writes |-> writes, deletes |-> deletes,
          sent |-> FALSE, resp |-> "StoreNotFound"]
    ELSE [kind |-> "write", writes |-> writes, deletes |-> deletes,
          sent |-> TRUE, resp |-> IF fail THEN "OpenFGA" ELSE "ok"]

\* the backend's store after a call: a write request that succeeded removes its
\* deletes and adds its writes
backend_apply(st, call) ==
    IF call.kind = "write" /\ call.resp = "ok"
    THEN (st \ Range(call.deletes)) \cup Range(call.writes)
    ELSE st

\* service/tuples.rs update_tuples: nothing to do, nothing sent
update_tuples(writes, deletes, fail) ==
    IF writes = <<>> /\ deletes = <<>>
    THEN [res |-> "Ok", calls |-> <<>>]
    ELSE LET c == client_write(writes, deletes, fail)
         IN  [res |-> IF c.resp = "ok" THEN "Ok" ELSE c.resp, calls |-> <<c>>]

RECURSIVE apply_calls(_, _)
apply_calls(st, calls) ==
    IF calls = <<>> THEN st
    ELSE apply_calls(backend_apply(st, Head(calls)), Tail(calls))

\* OpenFGAClient::list_objects.  b is the backend's answer to the request:
\* whether it succeeded and, if so, the objects it returned.
client_list_objects(user, relation, object_type, b) ==
    IF store_id = ""
    THEN [kind |-> "list_objects", user |-> user, relation |-> relation,
          type |-> object_type, sent |-> FALSE, resp |-> "StoreNotFound",
          objects |-> <<>>]
    ELSE [kind |-> "list_objects", user |-> user, relation |-> relation,
          type |-> object_type, sent |-> TRUE,
          resp |-> IF b.ok THEN "ok" ELSE "error",
          objects |-> IF b.ok THEN b.objects ELSE <<>>]

---------------------------------------------------------------------------
(* Permission Checker: service/checker.rs *)

is_root_exact(role) == role = "root"

is_root(role) == eq_ignore_ascii_case(role, "root")

\* the match on the check call's result: Ok(allowed) => allowed, Err(_) => false
check_outcome_failopen(resp) == resp # "denied"

check_outcome(resp) ==
    IF resp \in {"error", "StoreNotFound"} THEN FALSE ELSE resp = "allowed"

\* is_allowed: the decision and the gateway calls made to reach it
is_allowed(org_id, user_id, method, object, role, b) ==
    IF ~enabled THEN [res |-> "Ok", val |-> TRUE, calls |-> <<>>]
    ELSE IF is_root(role) THEN [res |-> "Ok", val |-> TRUE, calls |-> <<>>]
    ELSE LET parts == parse_object(object) IN
    IF parts = <<>> THEN [res |-> "Ok", val |-> FALSE, calls |-> <<>>]
    ELSE LET resource_type == parts[1]
             entity_id == parts[2]
         IN
    IF ~is_valid_resource_type(resource_type)
    THEN [res |-> "Ok", val |-> FALSE, calls |-> <<>>]
    ELSE LET is_list == is_all_org_entity(entity_id, org_id)
             relation == to_relation(from_method(method, is_list))
             user == user_type(user_id)
             fga_object == IF is_list
                           THEN resource_object_all(org_id, resource_type)
                           ELSE resource_object(org_id, resource_type, entity_id)
             call == client_check(TupleKey(user, relation, fga_object), b)
         IN  [res |-> "Ok", val |-> check_outcome(call.resp), calls |-> <<call>>]

check_permissions(user_id, org_id, method, object, role, b) ==
    LET r == is_allowed(org_id, user_id, method, object, role, b)
    IN  [res |-> "Ok", val |-> IF r.res = "Ok" THEN r.val ELSE FALSE, calls |-> r.calls]

\* the filter_map over the backend's objects: those under the prefix, stripped
strip_all(objects, prefix) ==
    LET kept == SelectSeq(objects, LAMBDA o : starts_with(o, prefix))
    IN  [i \in 1..Len(kept) |-> strip_prefix(kept[i], prefix)[1]]

\* list_objects_for_user answering None when the gateway call fails
list_objects_for_user_none_on_error(org_id, user_id, permission, object_type, role, b) ==
    IF ~enabled \/ eq_ignore_ascii_case(role, "root")
    THEN [res |-> "Ok", val |-> None, calls |-> <<>>]
    ELSE IF ~list_only_permitted
    THEN [res |-> "Ok", val |-> None, calls |-> <<>>]
    ELSE LET p == from_str(permission)
             relation == IF p # None THEN to_relation(p[1]) ELSE "can_read"
             call == client_list_objects(user_type(user_id), relation, "resource", b)
             prefix == "resource:" \o org_id \o "_" \o object_type \o "_"
         IN  IF call.resp = "ok"
             THEN [res |-> "Ok", val |-> Some(strip_all(call.objects, prefix)),
                   calls |-> <<call>>]
             ELSE [res |-> "Ok", val |-> None, calls |-> <<call>>]

\* list_objects_for_user: val is None (the caller lists everything) or
\* Some(ids); res is "Err" when the gateway call failed
list_objects_for_user(org_id, user_id, permission, object_type, role, b) ==
    IF ~enabled \/ eq_ignore_ascii_case(role, "root")
    THEN [res |-> "Ok", val |-> None, calls |-> <<>>]
    ELSE IF ~list_only_permitted
    THEN [res |-> "Ok", val |-> None, calls |-> <<>>]
    ELSE LET p == from_str(permission)
             relation == IF p # None THEN to_relation(p[1]) ELSE "can_read"
             user == user_type(user_id)
             fga_type == "resource"
             call == client_list_objects(user, relation, fga_type, b)
             prefix == "resource:" \o org_id \o "_" \o object_type \o "_"
         IN  IF call.resp = "ok"
             THEN [res |-> "Ok", val |-> Some(strip_all(call.objects, prefix)),
                   calls |-> <<call>>]
             ELSE [res |-> "Err", val |-> None, calls |-> <<call>>]


---------------------------------------------------------------------------
(* Role Service: service/roles.rs.  A handler is given the store contents  *)
(* it runs on and failAt, the position of the gateway call that fails (0:  *)
(* none); it yields its result and its gateway calls.  With no concurrent  *)
(* writer the store after the handler is apply_calls(st, calls).           *)

SYSTEM_ROLES == {"admin", "editor", "viewer"}

is_system_role(name) == \E r \in SYSTEM_ROLES : eq_ignore_ascii_case(r, name)

\* iter().filter_map(|t| t.key.<field>.strip_prefix(prefix)), in the order read
RECURSIVE filter_map_strip(_, _, _)
filter_map_strip(tuples, field, prefix) ==
    IF tuples = <<>> THEN <<>>
    ELSE LET x == strip_prefix(Head(tuples)[field], prefix)
         IN  x \o filter_map_strip(Tail(tuples), field, prefix)

\* permission_to_relation matching the permission as it is written
permission_to_relation_case_sensitive(permission) ==
    CASE permission = "AllowAll" -> "ALLOW_ALL"
      [] permission = "AllowList" -> "ALLOW_LIST"
      [] permission = "AllowGet" -> "ALLOW_GET"
      [] permission = "AllowPost" -> "ALLOW_POST"
      [] permission = "AllowPut" -> "ALLOW_PUT"
      [] permission = "AllowDelete" -> "ALLOW_DELETE"
      [] OTHER -> "ALLOW_GET"

permission_to_relation(permission) ==
    LET p == to_lowercase(permission)
    IN  CASE p = "allowall" -> "ALLOW_ALL"
          [] p = "allowlist" -> "ALLOW_LIST"
          [] p = "allowget" -> "ALLOW_GET"
          [] p = "allowpost" -> "ALLOW_POST"
          [] p = "allowput" -> "ALLOW_PUT"
          [] p = "allowdelete" -> "ALLOW_DELETE"
          [] OTHER -> "ALLOW_GET"

relation_to_permission(relation) ==
    CASE relation = "ALLOW_ALL" -> "AllowAll"
      [] relation = "ALLOW_LIST" -> "AllowList"
      [] relation = "ALLOW_GET" -> "AllowGet"
      [] relation = "ALLOW_POST" -> "AllowPost"
      [] relation = "ALLOW_PUT" -> "AllowPut"
      [] relation = "ALLOW_DELETE" -> "AllowDelete"
      [] OTHER -> "AllowGet"

list_roles(st, org_id, fail) ==
    LET call == client_read(st, None, fail)
        prefix == "role:" \o org_id \o "_"
        org_user == "org:" \o org_id
        created == { t \in Range(call.tuples) :
                        /\ t.relation = "owningOrg"
                        /\ t.user = org_user
                        /\ starts_with(t.object, prefix) }
        roles == { n \in { strip_prefix(t.object, prefix)[1] : t \in created } :
                        ~is_system_role(n) }
    IN  IF call.resp # "ok"
        THEN [res |-> call.resp, val |-> <<>>, calls |-> <<call>>]
        ELSE [res |-> "Ok", val |-> sort(roles), calls |-> <<call>>]

create_role_exact_match(st, org_id, role_name, failAt) ==
    LET existing == list_roles(st, org_id, failAt = 1)
        tuple == TupleKey("org:" \o org_id, "owningOrg", role_type(org_id, role_name))
        w == update_tuples(<<tuple>>, <<>>, failAt = 2)
    IN  IF existing.res # "Ok"
        THEN [res |-> existing.res, val |-> <<>>, calls |-> existing.calls]
        ELSE IF role_name \in Range(existing.val)
        THEN [res |-> "DuplicateEntry", val |-> <<>>, calls |-> existing.calls]
        ELSE IF is_system_role(role_name)
        THEN [res |-> "Validation", val |-> <<>>, calls |-> existing.calls]
        ELSE [res |-> w.res, val |-> <<>>, calls |-> existing.calls \o w.calls]

create_role(st, org_id, role_name, failAt) ==
    LET existing == list_roles(st, org_id, failAt = 1)
        tuple == TupleKey("org:" \o org_id, "owningOrg", role_type(org_id, role_name))
        w == update_tuples(<<tuple>>, <<>>, failAt = 2)
    IN  IF existing.res # "Ok"
        THEN [res |-> existing.res, val |-> <<>>, calls |-> existing.calls]
        ELSE IF \E r \in Range(existing.val) : eq_ignore_ascii_case(r, role_name)
        THEN [res |-> "DuplicateEntry", val |-> <<>>, calls |-> existing.calls]
        ELSE IF is_system_role(role_name)
        THEN [res |-> "Validation", val |-> <<>>, calls |-> existing.calls]
        ELSE [res |-> w.res, val |-> <<>>, calls |-> existing.calls \o w.calls]

\* the second read of delete_role: the tuples the role's "has" userset is subject of
delete_role_filter2_member(role_object) ==
    TupleKeyFilter(Some(role_object \o "#member"), None, None)

delete_role_filter2(role_object) ==
    TupleKeyFilter(Some(role_object \o "#has"), None, None)

\* delete_role sending its write request whether or not it found a tuple
delete_role_always_writes(st, org_id, role_name, failAt) ==
    LET role_object == role_type(org_id, role_name)
        r1 == client_read(st, Some(TupleKeyFilter(None, None, Some(role_object))), failAt = 1)
        r2 == client_read(st, Some(delete_role_filter2(role_object)), failAt = 2)
        deletes == r1.tuples \o r2.tuples
        c == client_write(<<>>, deletes, failAt = 3)
    IN  IF is_system_role(role_name)
        THEN [res |-> "Validation", val |-> <<>>, calls |-> <<>>]
        ELSE IF r1.resp # "ok"
        THEN [res |-> r1.resp, val |-> <<>>, calls |-> <<r1>>]
        ELSE IF r2.resp # "ok"
        THEN [res |-> r2.resp, val |-> <<>>, calls |-> <<r1, r2>>]
        ELSE [res |-> IF c.resp = "ok" THEN "Ok" ELSE c.resp, val |-> <<>>,
              calls |-> <<r1, r2, c>>]

\* delete_role taking a failed read for an empty one and going on
delete_role_ignores_read_failure(st, org_id, role_name, failAt) ==
    LET role_object == role_type(org_id, role_name)
        r1 == client_read(st, Some(TupleKeyFilter(None, None, Some(role_object))), failAt = 1)
        r2 == client_read(st, Some(delete_role_filter2(role_object)), failAt = 2)
        deletes == r1.tuples \o r2.tuples
        w == update_tuples(<<>>, deletes, failAt = 3)
    IN  IF is_system_role(role_name)
        THEN [res |-> "Validation", val |-> <<>>, calls |-> <<>>]
        ELSE IF deletes # <<>>
        THEN [res |-> w.res, val |-> <<>>, calls |-> <<r1, r2>> \o w.calls]
        ELSE [res |-> "Ok", val |-> <<>>, calls |-> <<r1, r2>>]

delete_role(st, org_id, role_name, failAt) ==
    LET role_object == role_type(org_id, role_name)
        r1 == client_read(st, Some(TupleKeyFilter(None, None, Some(role_object))), failAt = 1)
        r2 == client_read(st, Some(delete_role_filter2(role_object)), failAt = 2)
        deletes == r1.tuples \o r2.tuples
        w == update_tuples(<<>>, deletes, failAt = 3)
    IN  IF is_system_role(role_name)
        THEN [res |-> "Validation", val |-> <<>>, calls |-> <<>>]
        ELSE IF r1.resp # "ok"
        THEN [res |-> r1.resp, val |-> <<>>, calls |-> <<r1>>]
        ELSE IF r2.resp # "ok"
        THEN [res |-> r2.resp, val |-> <<>>, calls |-> <<r1, r2>>]
        ELSE IF deletes # <<>>
        THEN [res |-> w.res, val |-> <<>>, calls |-> <<r1, r2>> \o w.calls]
        ELSE [res |-> "Ok", val |-> <<>>, calls |-> <<r1, r2>>]

get_role_users(st, org_id, role_name, fail) ==
    LET role_object == role_type(org_id, role_name)
        call == client_read(st, Some(TupleKeyFilter(None, Some("assigned"), Some(role_object))), fail)
    IN  IF call.resp # "ok"
        THEN [res |-> call.resp, val |-> <<>>, calls |-> <<call>>]
        ELSE [res |-> "Ok", val |-> filter_map_strip(call.tuples, "user", "user:"),
              calls |-> <<call>>]

PermissionEntry(object, permission) == [object |-> object, permission |-> permission]

RECURSIVE role_permission_entries(_, _, _)
role_permission_entries(tuples, org_id, resource_type) ==
    LET resource_prefix == resource_type \o ":" \o org_id \o "_"
        t == Head(tuples)
        entity == strip_prefix(t.object, resource_prefix)[1]
        object == IF entity = "all"
                  THEN resource_type \o ":_all_" \o org_id
                  ELSE resource_type \o ":" \o entity
    IN  IF tuples = <<>> THEN <<>>
        ELSE IF ~starts_with(t.object, resource_prefix)
        THEN role_permission_entries(Tail(tuples), org_id, resource_type)
        ELSE <<PermissionEntry(object, relation_to_permission(t.relation))>>
                 \o role_permission_entries(Tail(tuples), org_id, resource_type)

get_role_permissions(st, org_id, role_name, resource_type, fail) ==
    LET role_has == role_type(org_id, role_name) \o "#has"
        call == client_read(st, Some(TupleKeyFilter(Some(role_has), None, None)), fail)
    IN  IF call.resp # "ok"
        THEN [res |-> call.resp, val |-> <<>>, calls |-> <<call>>]
        ELSE [res |-> "Ok",
              val |-> role_permission_entries(call.tuples, org_id, resource_type),
              calls |-> <<call>>]

\* role_permission_tuples without the "_all" test: the entry's object as given
RECURSIVE role_permission_tuples_no_wildcard(_, _, _)
role_permission_tuples_no_wildcard(org_id, role_name, permissions) ==
    LET role_has == role_type(org_id, role_name) \o "#has"
        perm == Head(permissions)
        parts == split_once(perm.object, ":")
        relation == permission_to_relation(perm.permission)
        resource == resource_object(org_id, parts[1], parts[2])
        rest == role_permission_tuples_no_wildcard(org_id, role_name, Tail(permissions))
    IN  IF permissions = <<>> THEN <<>>
        ELSE IF parts = <<>> THEN rest
        ELSE <<TupleKey(role_has, relation, resource)>> \o rest

\* the tuple list both add_role_permissions and remove_role_permissions build:
\* an entry without ':' is skipped
RECURSIVE role_permission_tuples(_, _, _)
role_permission_tuples(org_id, role_name, permissions) ==
    LET role_has == role_type(org_id, role_name) \o "#has"
        perm == Head(permissions)
        parts == split_once(perm.object, ":")
        relation == permission_to_relation(perm.permission)
        resource == IF starts_with(parts[2], "_all")
                    THEN resource_object_all(org_id, parts[1])
                    ELSE resource_object(org_id, parts[1], parts[2])
        rest == role_permission_tuples(org_id, role_name, Tail(permissions))
    IN  IF permissions = <<>> THEN <<>>
        ELSE IF parts = <<>> THEN rest
        ELSE <<TupleKey(role_has, relation, resource)>> \o rest

add_role_permissions(st, org_id, role_name, permissions, fail) ==
    LET writes == role_permission_tuples(org_id, role_name, permissions)
        w == update_tuples(writes, <<>>, fail)
    IN  IF permissions = <<>> \/ writes = <<>>
        THEN [res |-> "Ok", val |-> <<>>, calls |-> <<>>]
        ELSE [res |-> w.res, val |-> <<>>, calls |-> w.calls]

remove_role_permissions(st, org_id, role_name, permissions, fail) ==
    LET deletes == role_permission_tuples(org_id, role_name, permissions)
        w == update_tuples(<<>>, deletes, fail)
    IN  IF permissions = <<>> \/ deletes = <<>>
        THEN [res |-> "Ok", val |-> <<>>, calls |-> <<>>]
        ELSE [res |-> w.res, val |-> <<>>, calls |-> w.calls]

\* service/tuples.rs get_user_crole_tuple
get_user_crole_tuple(org_id, role_name, user_email) ==
    TupleKey(user_type(user_email), "assigned", role_type(org_id, role_name))

\* users is a HashSet: the tuples are built in its iteration order
add_role_users(st, org_id, role_name, users, fail) ==
    LET writes == SetToSeq({ get_user_crole_tuple(org_id, role_name, email) : email \in users })
        w == update_tuples(writes, <<>>, fail)
    IN  IF users = {}
        THEN [res |-> "Ok", val |-> <<>>, calls |-> <<>>]
        ELSE [res |-> w.res, val |-> <<>>, calls |-> w.calls]

remove_role_users_first_only(st, org_id, role_name, users, fail) ==
    LET deletes == SetToSeq({ get_user_crole_tuple(org_id, role_name, email) : email \in users })
        w == update_tuples(<<>>, <<Head(deletes)>>, fail)
    IN  IF users = {}
        THEN [res |-> "Ok", val |-> <<>>, calls |-> <<>>]
        ELSE [res |-> w.res, val |-> <<>>, calls |-> w.calls]

remove_role_users(st, org_id, role_name, users, fail) ==
    LET deletes == SetToSeq({ get_user_crole_tuple(org_id, role_name, email) : email \in users })
        w == update_tuples(<<>>, deletes, fail)
    IN  IF users = {}
        THEN [res |-> "Ok", val |-> <<>>, calls |-> <<>>]
        ELSE [res |-> w.res, val |-> <<>>, calls |-> w.calls]


---------------------------------------------------------------------------
(* Group Service: service/groups.rs *)

\* service/tuples.rs get_group_member_tuple, get_group_role_tuple
get_group_member_tuple(org_id, group_name, user_email) ==
    TupleKey(user_type(user_email), "member", group_type(org_id, group_name))

get_group_role_tuple(org_id, group_name, role_name) ==
    TupleKey(group_type(org_id, group_name), "grp_assigned", role_type(org_id, role_name))

list_groups(st, org_id, fail) ==
    LET call == client_read(st, None, fail)
        prefix == "group:" \o org_id \o "_"
        org_user == "org:" \o org_id
        found == { t \in Range(call.tuples) :
                      /\ starts_with(t.object, prefix)
                      /\ \/ (t.relation = "owningOrg" /\ t.user = org_user)
                         \/ t.relation = "member" }
        groups == { strip_prefix(t.object, prefix)[1] : t \in found }
    IN  IF call.resp # "ok"
        THEN [res |-> call.resp, val |-> <<>>, calls |-> <<call>>]
        ELSE [res |-> "Ok", val |-> sort(groups), calls |-> <<call>>]

create_group(st, org_id, name, failAt) ==
    LET existing == list_groups(st, org_id, failAt = 1)
        tuple == TupleKey("org:" \o org_id, "owningOrg", group_type(org_id, name))
        w == update_tuples(<<tuple>>, <<>>, failAt = 2)
    IN  IF existing.res # "Ok"
        THEN [res |-> existing.res, val |-> <<>>, calls |-> existing.calls]
        ELSE IF \E g \in Range(existing.val) : eq_ignore_ascii_case(g, name)
        THEN [res |-> "DuplicateEntry", val |-> <<>>, calls |-> existing.calls]
        ELSE [res |-> w.res, val |-> <<>>, calls |-> existing.calls \o w.calls]

\* GroupResponse: the users and roles of the group (id and timestamps left out)
get_group_no_ownership_read(st, org_id, group_name, failAt) ==
    LET group_object == group_type(org_id, group_name)
        r1 == client_read(st, Some(TupleKeyFilter(None, Some("member"), Some(group_object))),
                          failAt = 1)
        users == filter_map_strip(r1.tuples, "user", "user:")
        r2 == client_read(st, Some(TupleKeyFilter(Some(group_object), Some("grp_assigned"), None)),
                          failAt = 2)
        roles == filter_map_strip(r2.tuples, "object", "role:" \o org_id \o "_")
    IN  IF r1.resp # "ok"
        THEN [res |-> r1.resp, val |-> <<>>, calls |-> <<r1>>]
        ELSE IF r2.resp # "ok"
        THEN [res |-> r2.resp, val |-> <<>>, calls |-> <<r1, r2>>]
        ELSE IF users = <<>> /\ roles = <<>>
        THEN [res |-> "GroupNotFound", val |-> <<>>, calls |-> <<r1, r2>>]
        ELSE [res |-> "Ok", val |-> [name |-> group_name, users |-> users, roles |-> roles],
              calls |-> <<r1, r2>>]

get_group(st, org_id, group_name, failAt) ==
    LET group_object == group_type(org_id, group_name)
        r1 == client_read(st, Some(TupleKeyFilter(None, Some("member"), Some(group_object))),
                          failAt = 1)
        users == filter_map_strip(r1.tuples, "user", "user:")
        r2 == client_read(st, Some(TupleKeyFilter(Some(group_object), Some("grp_assigned"), None)),
                          failAt = 2)
        roles == filter_map_strip(r2.tuples, "object", "role:" \o org_id \o "_")
        r3 == client_read(st, Some(TupleKeyFilter(None, None, Some(group_object))), failAt = 3)
        found == [name |-> group_name, users |-> users, roles |-> roles]
    IN  IF r1.resp # "ok"
        THEN [res |-> r1.resp, val |-> <<>>, calls |-> <<r1>>]
        ELSE IF r2.resp # "ok"
        THEN [res |-> r2.resp, val |-> <<>>, calls |-> <<r1, r2>>]
        ELSE IF users = <<>> /\ roles = <<>>
        THEN IF r3.resp # "ok"
             THEN [res |-> r3.resp, val |-> <<>>, calls |-> <<r1, r2, r3>>]
             ELSE IF r3.tuples = <<>>
             THEN [res |-> "GroupNotFound", val |-> <<>>, calls |-> <<r1, r2, r3>>]
             ELSE [res |-> "Ok", val |-> found, calls |-> <<r1, r2, r3>>]
        ELSE [res |-> "Ok", val |-> found, calls |-> <<r1, r2>>]

\* the second read of delete_group: the tuples "<group>#member" is subject of
delete_group_filter2(group_object) ==
    TupleKeyFilter(Some(group_object \o "#member"), None, None)

delete_group(st, org_id, group_name, failAt) ==
    LET group_object == group_type(org_id, group_name)
        r1 == client_read(st, Some(TupleKeyFilter(None, None, Some(group_object))), failAt = 1)
        r2 == client_read(st, Some(delete_group_filter2(group_object)), failAt = 2)
        deletes == r1.tuples \o r2.tuples
        w == update_tuples(<<>>, deletes, failAt = 3)
    IN  IF r1.resp # "ok"
        THEN [res |-> r1.resp, val |-> <<>>, calls |-> <<r1>>]
        ELSE IF r2.resp # "ok"
        THEN [res |-> r2.resp, val |-> <<>>, calls |-> <<r1, r2>>]
        ELSE IF deletes # <<>>
        THEN [res |-> w.res, val |-> <<>>, calls |-> <<r1, r2>> \o w.calls]
        ELSE [res |-> "Ok", val |-> <<>>, calls |-> <<r1, r2>>]

add_group_users(st, org_id, group_name, users, fail) ==
    LET writes == SetToSeq({ get_group_member_tuple(org_id, group_name, email) : email \in users })
        w == update_tuples(writes, <<>>, fail)
    IN  IF users = {}
        THEN [res |-> "Ok", val |-> <<>>, calls |-> <<>>]
        ELSE [res |-> w.res, val |-> <<>>, calls |-> w.calls]

remove_group_users(st, org_id, group_name, users, fail) ==
    LET deletes == SetToSeq({ get_group_member_tuple(org_id, group_name, email) : email \in users })
        w == update_tuples(<<>>, deletes, fail)
    IN  IF users = {}
        THEN [res |-> "Ok", val |-> <<>>, calls |-> <<>>]
        ELSE [res |-> w.res, val |-> <<>>, calls |-> w.calls]

add_group_roles(st, org_id, group_name, roles, fail) ==
    LET writes == SetToSeq({ get_group_role_tuple(org_id, group_name, r) : r \in roles })
        w == update_tuples(writes, <<>>, fail)
    IN  IF roles = {}
        THEN [res |-> "Ok", val |-> <<>>, calls |-> <<>>]
        ELSE [res |-> w.res, val |-> <<>>, calls |-> w.calls]

remove_group_roles(st, org_id, group_name, roles, fail) ==
    LET deletes == SetToSeq({ get_group_role_tuple(org_id, group_name, r) : r \in roles })
        w == update_tuples(<<>>, deletes, fail)
    IN  IF roles = {}
        THEN [res |-> "Ok", val |-> <<>>, calls |-> <<>>]
        ELSE [res |-> w.res, val |-> <<>>, calls |-> w.calls]

get_user_groups_bare_prefix(st, org_id, user_email, fail) ==
    LET call == client_read(st, Some(TupleKeyFilter(Some(user_type(user_email)), Some("member"), None)),
                            fail)
    IN  IF call.resp # "ok"
        THEN [res |-> call.resp, val |-> <<>>, calls |-> <<call>>]
        ELSE [res |-> "Ok", val |-> filter_map_strip(call.tuples, "object", "group:"),
              calls |-> <<call>>]

get_user_groups(st, org_id, user_email, fail) ==
    LET call == client_read(st, Some(TupleKeyFilter(Some(user_type(user_email)), Some("member"), None)),
                            fail)
    IN  IF call.resp # "ok"
        THEN [res |-> call.resp, val |-> <<>>, calls |-> <<call>>]
        ELSE [res |-> "Ok",
              val |-> filter_map_strip(call.tuples, "object", "group:" \o org_id \o "_"),
              calls |-> <<call>>]

\* the loop of get_user_roles over the user's groups: k is the position of the
\* next gateway call; acc carries the roles found and the calls made
RECURSIVE group_roles_loop(_, _, _, _, _, _)
group_roles_loop(st, org_id, groups, k, failAt, acc) ==
    LET call == client_read(st,
                    Some(TupleKeyFilter(Some(group_type(org_id, Head(groups))),
                                        Some("grp_assigned"), None)),
                    failAt = k)
        found == Range(filter_map_strip(call.tuples, "object", "role:" \o org_id \o "_"))
    IN  IF groups = <<>> THEN acc
        ELSE IF call.resp # "ok"
        THEN [res |-> call.resp, roles |-> {}, calls |-> acc.calls \o <<call>>]
        ELSE group_roles_loop(st, org_id, Tail(groups), k + 1, failAt,
                 [res |-> "Ok", roles |-> acc.roles \cup found, calls |-> acc.calls \o <<call>>])

get_user_roles_direct_only(st, org_id, user_email, failAt) ==
    LET r1 == client_read(st, Some(TupleKeyFilter(Some(user_type(user_email)), Some("assigned"), None)),
                          failAt = 1)
        direct == Range(filter_map_strip(r1.tuples, "object", "role:" \o org_id \o "_"))
    IN  IF r1.resp # "ok"
        THEN [res |-> r1.resp, val |-> <<>>, calls |-> <<r1>>]
        ELSE [res |-> "Ok", val |-> sort(direct), calls |-> <<r1>>]

get_user_roles(st, org_id, user_email, failAt) ==
    LET r1 == client_read(st, Some(TupleKeyFilter(Some(user_type(user_email)), Some("assigned"), None)),
                          failAt = 1)
        direct == Range(filter_map_strip(r1.tuples, "object", "role:" \o org_id \o "_"))
        groups == get_user_groups(st, org_id, user_email, failAt = 2)
        loop == group_roles_loop(st, org_id, groups.val, 3, failAt,
                    [res |-> "Ok", roles |-> direct, calls |-> <<r1>> \o groups.calls])
    IN  IF r1.resp # "ok"
        THEN [res |-> r1.resp, val |-> <<>>, calls |-> <<r1>>]
        ELSE IF groups.res # "Ok"
        THEN [res |-> groups.res, val |-> <<>>, calls |-> <<r1>> \o groups.calls]
        ELSE IF loop.res # "Ok"
        THEN [res |-> loop.res, val |-> <<>>, calls |-> loop.calls]
        ELSE [res |-> "Ok", val |-> sort(loop.roles), calls |-> loop.calls]


---------------------------------------------------------------------------
(* Org Lifecycle Tuples: service/tuples.rs, authorizer/authz.rs *)

role_to_fga_relation_case_sensitive(role) ==
    CASE role \in {"root", "admin"} -> "admin"
      [] role = "editor" -> "editor"
      [] role = "viewer" -> "viewer"
      [] OTHER -> "allowed_user"

role_to_fga_relation(role) ==
    LET r == to_lowercase(role)
    IN  CASE r \in {"root", "admin"} -> "admin"
          [] r = "editor" -> "editor"
          [] r = "viewer" -> "viewer"
          [] r \in {"user", "serviceaccount", "service_account"} -> "allowed_user"
          [] OTHER -> "allowed_user"

\* the builders push onto the caller's Vec: tuples is the Vec before the call
get_add_user_to_org_tuples(org_id, user_email, role, tuples) ==
    LET user == user_type(user_email)
        org == org_type(org_id)
        relation == role_to_fga_relation(role)
    IN  tuples \o <<TupleKey(user, relation, org), TupleKey(user, "org_context", org)>>

get_org_creation_tuples(org_id, tuples) ==
    LET org == org_type(org_id)
    IN  tuples \o <<TupleKey(org, "member", org)>>

get_delete_user_system_role_tuples(org_id, user_email, role, tuples) ==
    LET user == user_type(user_email)
        org == org_type(org_id)
        relation == role_to_fga_relation(role)
    IN  tuples \o <<TupleKey(user, relation, org), TupleKey(user, "org_context", org)>>

get_delete_all_user_from_org_tuples_no_allowed_user(org_id, user_email, tuples) ==
    LET user == user_type(user_email)
        org == org_type(org_id)
    IN  tuples \o << TupleKey(user, "admin", org), TupleKey(user, "editor", org),
                     TupleKey(user, "viewer", org), TupleKey(user, "org_context", org) >>

get_delete_all_user_from_org_tuples(org_id, user_email, tuples) ==
    LET user == user_type(user_email)
        org == org_type(org_id)
    IN  tuples \o << TupleKey(user, "admin", org), TupleKey(user, "editor", org),
                     TupleKey(user, "viewer", org), TupleKey(user, "allowed_user", org),
                     TupleKey(user, "org_context", org) >>

\* update_user_role writing the new role tuple and leaving the old one
update_user_role_keeps_old(st, org_id, user_email, old_role, new_role, fail) ==
    LET user == user_type(user_email)
        org == org_type(org_id)
        old_relation == role_to_fga_relation(old_role)
        new_relation == role_to_fga_relation(new_role)
        w == update_tuples(<<TupleKey(user, new_relation, org)>>, <<>>, fail)
    IN  IF old_relation = new_relation
        THEN [res |-> "Ok", val |-> <<>>, calls |-> <<>>]
        ELSE [res |-> w.res, val |-> <<>>, calls |-> w.calls]

update_user_role_no_shortcut(st, org_id, user_email, old_role, new_role, fail) ==
    LET user == user_type(user_email)
        org == org_type(org_id)
        w == update_tuples(<<TupleKey(user, role_to_fga_relation(new_role), org)>>,
                           <<TupleKey(user, role_to_fga_relation(old_role), org)>>, fail)
    IN  [res |-> w.res, val |-> <<>>, calls |-> w.calls]

update_user_role(st, org_id, user_email, old_role, new_role, fail) ==
    LET user == user_type(user_email)
        org == org_type(org_id)
        old_relation == role_to_fga_relation(old_role)
        new_relation == role_to_fga_relation(new_role)
        w == update_tuples(<<TupleKey(user, new_relation, org)>>,
                           <<TupleKey(user, old_relation, org)>>, fail)
    IN  IF old_relation = new_relation
        THEN [res |-> "Ok", val |-> <<>>, calls |-> <<>>]
        ELSE [res |-> w.res, val |-> <<>>, calls |-> w.calls]

add_user_to_org(st, org_id, user_email, role, fail) ==
    LET w == update_tuples(get_add_user_to_org_tuples(org_id, user_email, role, <<>>), <<>>, fail)
    IN  [res |-> w.res, val |-> <<>>, calls |-> w.calls]

delete_user_from_org(st, org_id, user_email, fail) ==
    LET w == update_tuples(<<>>, get_delete_all_user_from_org_tuples(org_id, user_email, <<>>), fail)
    IN  [res |-> w.res, val |-> <<>>, calls |-> w.calls]

delete_user_from_org_with_role(st, org_id, user_email, role, fail) ==
    LET w == update_tuples(<<>>,
                 get_delete_user_system_role_tuples(org_id, user_email, role, <<>>), fail)
    IN  [res |-> w.res, val |-> <<>>, calls |-> w.calls]

save_org_tuples(st, org_id, fail) ==
    LET w == update_tuples(get_org_creation_tuples(org_id, <<>>), <<>>, fail)
    IN  [res |-> w.res, val |-> <<>>, calls |-> w.calls]

delete_org_tuples(st, org_id, failAt) ==
    LET org == org_type(org_id)
        r1 == client_read(st, Some(TupleKeyFilter(None, None, Some(org))), failAt = 1)
        deletes == r1.tuples
        w == update_tuples(<<>>, deletes, failAt = 2)
    IN  IF r1.resp # "ok"
        THEN [res |-> r1.resp, val |-> <<>>, calls |-> <<r1>>]
        ELSE IF deletes # <<>>
        THEN [res |-> w.res, val |-> <<>>, calls |-> <<r1>> \o w.calls]
        ELSE [res |-> "Ok", val |-> <<>>, calls |-> <<r1>>]

---------------------------------------------------------------------------
(* Bootstrap: client.rs new / init_store, model/schema.rs.  A backend store *)
(* is a record [id, name, tuples, model]; the backend lists its stores in   *)
(* the order of the sequence, StoresPageSize to a page.                     *)

StoresPageSize == 2
BATCH_SIZE == 50

Digits == "0123456789"
\* the id the backend gives its n-th store
StoreId(n) == "S" \o SubSeq(Digits, n + 1, n + 1)
\* the id the backend gives the model it stores for a store
ModelId(sid) == "M_" \o sid

get_initial_tuples ==
    <<
      TupleKey("org:default", "owningOrg", "user:root@visdata.com"),
      TupleKey("user:root@visdata.com", "admin", "org:default"),
      TupleKey("user:root@visdata.com", "org_context", "org:default"),
      TupleKey("user:root@visdata.com", "admin", "org:_meta"),
      TupleKey("user:root@visdata.com", "org_context", "org:_meta"),
      TupleKey("org:default", "owningOrg", "stream:_all_default"),
      TupleKey("org:default", "owningOrg", "logs:_all_default"),
      TupleKey("org:default", "owningOrg", "metrics:_all_default"),
      TupleKey("org:default", "owningOrg", "traces:_all_default"),
      TupleKey("org:default", "owningOrg", "metadata:_all_default"),
      TupleKey("org:default", "owningOrg", "index:_all_default"),
      TupleKey("org:default", "owningOrg", "dashboard:_all_default"),
      TupleKey("org:default", "owningOrg", "dfolder:_all_default"),
      TupleKey("org:default", "owningOrg", "savedviews:_all_default"),
      TupleKey("org:default", "owningOrg", "report:_all_default"),
      TupleKey("org:default", "owningOrg", "rfolder:_all_default"),
      TupleKey("org:default", "owningOrg", "alert:_all_default"),
      TupleKey("org:default", "owningOrg", "afolder:_all_default"),
      TupleKey("org:default", "owningOrg", "template:_all_default"),
      TupleKey("org:default", "owningOrg", "destination:_all_default"),
      TupleKey("org:default", "owningOrg", "function:_all_default"),
      TupleKey("org:default", "owningOrg", "pipeline:_all_default"),
      TupleKey("org:default", "owningOrg", "enrichment_table:_all_default"),
      TupleKey("org:default", "owningOrg", "summary:_all_default"),
      TupleKey("org:default", "owningOrg", "settings:_all_default"),
      TupleKey("org:default", "owningOrg", "kv:_all_default"),
      TupleKey("org:default", "owningOrg", "syslog-route:_all_default"),
      TupleKey("org:default", "owningOrg", "ratelimit:_all_default"),
      TupleKey("org:default", "owningOrg", "cipher_keys:_all_default"),
      TupleKey("org:default", "owningOrg", "license:_all_default"),
      TupleKey("org:default", "owningOrg", "user:_all_default"),
      TupleKey("org:default", "owningOrg", "group:_all_default"),
      TupleKey("org:default", "owningOrg", "role:_all_default"),
      TupleKey("org:default", "owningOrg", "passcode:_all_default"),
      TupleKey("org:default", "owningOrg", "rumtoken:_all_default"),
      TupleKey("org:default", "owningOrg", "service_accounts:_all_default"),
      TupleKey("org:default", "owningOrg", "search_jobs:_all_default"),
      TupleKey("org:default", "owningOrg", "action_scripts:_all_default"),
      TupleKey("org:default", "owningOrg", "ai:_all_default"),
      TupleKey("org:default", "owningOrg", "re_patterns:_all_default"),
      TupleKey("org:default", "owningOrg", "dfolder:default"),
      TupleKey("dfolder:_all_default", "selfParent", "dfolder:default"),
      TupleKey("org:default", "owningOrg", "afolder:default"),
      TupleKey("afolder:_all_default", "selfParent", "afolder:default"),
      TupleKey("stream:_all_default", "parent", "logs:_all_default"),
      TupleKey("stream:_all_default", "parent", "metrics:_all_default"),
      TupleKey("stream:_all_default", "parent", "traces:_all_default"),
      TupleKey("stream:_all_default", "parent", "index:_all_default"),
      TupleKey("stream:_all_default", "parent", "metadata:_all_default"),
      TupleKey("org:_meta", "owningOrg", "logs:audit"),
      TupleKey("org:_meta", "owningOrg", "stream:_all__meta"),
      TupleKey("org:_meta", "owningOrg", "logs:_all__meta"),
      TupleKey("org:_meta", "owningOrg", "metrics:_all__meta"),
      TupleKey("org:_meta", "owningOrg", "traces:_all__meta"),
      TupleKey("org:_meta", "owningOrg", "metadata:_all__meta"),
      TupleKey("org:_meta", "owningOrg", "index:_all__meta"),
      TupleKey("org:_meta", "owningOrg", "dashboard:_all__meta"),
      TupleKey("org:_meta", "owningOrg", "dfolder:_all__meta"),
      TupleKey("org:_meta", "owningOrg", "savedviews:_all__meta"),
      TupleKey("org:_meta", "owningOrg", "report:_all__meta"),
      TupleKey("org:_meta", "owningOrg", "rfolder:_all__meta"),
      TupleKey("org:_meta", "owningOrg", "alert:_all__meta"),
      TupleKey("org:_meta", "owningOrg", "afolder:_all__meta"),
      TupleKey("org:_meta", "owningOrg", "template:_all__meta"),
      TupleKey("org:_meta", "owningOrg", "destination:_all__meta"),
      TupleKey("org:_meta", "owningOrg", "function:_all__meta"),
      TupleKey("org:_meta", "owningOrg", "pipeline:_all__meta"),
      TupleKey("org:_meta", "owningOrg", "enrichment_table:_all__meta"),
      TupleKey("org:_meta", "owningOrg", "summary:_all__meta"),
      TupleKey("org:_meta", "owningOrg", "settings:_all__meta"),
      TupleKey("org:_meta", "owningOrg", "kv:_all__meta"),
      TupleKey("org:_meta", "owningOrg", "syslog-route:_all__meta"),
      TupleKey("org:_meta", "owningOrg", "ratelimit:_all__meta"),
      TupleKey("org:_meta", "owningOrg", "cipher_keys:_all__meta"),
      TupleKey("org:_meta", "owningOrg", "license:_all__meta"),
      TupleKey("org:_meta", "owningOrg", "user:_all__meta"),
      TupleKey("org:_meta", "owningOrg", "group:_all__meta"),
      TupleKey("org:_meta", "owningOrg", "role:_all__meta"),
      TupleKey("org:_meta", "owningOrg", "passcode:_all__meta"),
      TupleKey("org:_meta", "owningOrg", "rumtoken:_all__meta"),
      TupleKey("org:_meta", "owningOrg", "service_accounts:_all__meta"),
      TupleKey("org:_meta", "owningOrg", "search_jobs:_all__meta"),
      TupleKey("org:_meta", "owningOrg", "action_scripts:_all__meta"),
      TupleKey("org:_meta", "owningOrg", "ai:_all__meta"),
      TupleKey("org:_meta", "owningOrg", "re_patterns:_all__meta"),
      TupleKey("org:_meta", "owningOrg", "dfolder:default"),
      TupleKey("dfolder:_all__meta", "selfParent", "dfolder:default"),
      TupleKey("org:_meta", "owningOrg", "afolder:default"),
      TupleKey("afolder:_all__meta", "selfParent", "afolder:default"),
      TupleKey("stream:_all__meta", "parent", "logs:_all__meta"),
      TupleKey("stream:_all__meta", "parent", "metrics:_all__meta"),
      TupleKey("stream:_all__meta", "parent", "traces:_all__meta"),
      TupleKey("stream:_all__meta", "parent", "index:_all__meta"),
      TupleKey("stream:_all__meta", "parent", "metadata:_all__meta")
    >>

\* slice::chunks(n)
RECURSIVE chunks(_, _)
chunks(q, n) ==
    IF q = <<>> THEN <<>>
    ELSE IF Len(q) <= n THEN <<q>>
    ELSE <<SubSeq(q, 1, n)>> \o chunks(SubSeq(q, n + 1, Len(q)), n)

\* GET /stores: the backend answers with its first page of stores and, when
\* more remain, a continuation token.  list_stores sends the one request and
\* returns response.stores.
client_list_stores(ok) ==
    LET n == IF Len(stores) <= StoresPageSize THEN Len(stores) ELSE StoresPageSize
    IN  [kind |-> "list_stores", sent |-> TRUE,
         resp |-> IF ok THEN "ok" ELSE "error",
         stores |-> IF ok
                    THEN [i \in 1..n |-> [id |-> stores[i].id, name |-> stores[i].name]]
                    ELSE <<>>,
         continuation_token |-> IF ok /\ Len(stores) > n THEN Some("page2") ELSE None]

\* POST /stores in init_store
client_create_store(name, ok) ==
    [kind |-> "create_store", name |-> name, sent |-> TRUE,
     resp |-> IF ok THEN "ok" ELSE "error",
     id |-> IF ok THEN StoreId(Len(stores) + 1) ELSE ""]

\* the backend's latest model of store sid; a store created in this run has none
backend_model(sid) ==
    IF \E i \in 1..Len(stores) : stores[i].id = sid
    THEN stores[CHOOSE i \in 1..Len(stores) : stores[i].id = sid].model
    ELSE None

\* OpenFGAClient::get_latest_model_id
client_get_latest_model_id(sid, ok) ==
    IF sid = ""
    THEN [kind |-> "get_models", store |-> sid, sent |-> FALSE,
          resp |-> "StoreNotFound", model_id |-> None]
    ELSE [kind |-> "get_models", store |-> sid, sent |-> TRUE,
          resp |-> IF ok THEN "ok" ELSE "error",
          model_id |-> IF ok THEN backend_model(sid) ELSE None]

\* OpenFGAClient::write_authorization_model
client_write_authorization_model(sid, ok) ==
    IF sid = ""
    THEN [kind |-> "write_model", store |-> sid, sent |-> FALSE,
          resp |-> "StoreNotFound", model_id |-> None]
    ELSE [kind |-> "write_model", store |-> sid, sent |-> TRUE,
          resp |-> IF ok THEN "ok" ELSE "error",
          model_id |-> IF ok THEN Some(ModelId(sid)) ELSE None]

\* the loop over the chunks giving up at the first chunk that fails
write_chunks_stop_on_failure(sid, cs, failing) ==
    LET stop == IF \E i \in 1..Len(cs) : i \in failing
                THEN CHOOSE i \in 1..Len(cs) :
                        i \in failing /\ \A j \in 1..(i - 1) : j \notin failing
                ELSE Len(cs)
    IN  [i \in 1..stop |-> client_write_at(sid, cs[i], <<>>, i \in failing)]

\* the best-effort loop over the chunks: a failed chunk is skipped
write_chunks(sid, cs, failing) ==
    [i \in 1..Len(cs) |-> client_write_at(sid, cs[i], <<>>, i \in failing)]

\* stores.iter().find(|s| s.name == store_name)
find_store(listed, store_name) ==
    LET hits == { i \in 1..Len(listed) : listed[i].name = store_name }
    IN  IF hits = {} THEN None
        ELSE Some(listed[CHOOSE i \in hits : \A j \in hits : i <= j])

\* the model step writing the default model whether or not the store has one
init_store_model_always_writes(sid, is_new_store, calls, b) ==
    LET g == client_get_latest_model_id(sid, b.models)
        w == client_write_authorization_model(sid, b.write_model)
    IN  IF g.resp # "ok"
        THEN [res |-> "Err", val |-> FALSE, calls |-> calls \o <<g>>,
              store_id |-> sid, model_id |-> None]
        ELSE IF w.resp # "ok"
        THEN [res |-> "Err", val |-> FALSE, calls |-> calls \o <<g, w>>,
              store_id |-> sid, model_id |-> None]
        ELSE [res |-> "Ok", val |-> FALSE,
              calls |-> calls \o <<g, w>> \o
                        (IF is_new_store
                         THEN write_chunks(sid, chunks(get_initial_tuples, BATCH_SIZE),
                                           b.chunks)
                         ELSE <<>>),
              store_id |-> sid, model_id |-> w.model_id]

\* init_store from the point where config.store_id is sid: the model, then the
\* initial tuples when the store is new
init_store_model_and_tuples(sid, is_new_store, calls, b) ==
    LET g == client_get_latest_model_id(sid, b.models)
    IN  IF g.resp # "ok"
        THEN [res |-> "Err", val |-> FALSE, calls |-> calls \o <<g>>,
              store_id |-> sid, model_id |-> None]
        ELSE LET w == client_write_authorization_model(sid, b.write_model)
                 mcalls == IF g.model_id = None THEN <<g, w>> ELSE <<g>>
                 mid == IF g.model_id = None THEN w.model_id ELSE g.model_id
             IN  IF g.model_id = None /\ w.resp # "ok"
                 THEN [res |-> "Err", val |-> FALSE, calls |-> calls \o mcalls,
                       store_id |-> sid, model_id |-> None]
                 ELSE [res |-> "Ok", val |-> FALSE,
                       calls |-> calls \o mcalls \o
                                 (IF is_new_store
                                  THEN write_chunks(sid, chunks(get_initial_tuples, BATCH_SIZE),
                                                    b.chunks)
                                  ELSE <<>>),
                       store_id |-> sid, model_id |-> mid]

\* init_store seeding the initial tuples whether or not the store is new
init_store_always_seeds(store_name, b) ==
    LET l == client_list_stores(b.list)
        found == find_store(l.stores, store_name)
        c == client_create_store(store_name, b.create)
    IN  IF l.resp # "ok"
        THEN [res |-> "Err", val |-> FALSE, calls |-> <<l>>,
              store_id |-> "", model_id |-> None]
        ELSE IF found # None
        THEN init_store_model_and_tuples(found[1].id, TRUE, <<l>>, b)
        ELSE IF c.resp # "ok"
        THEN [res |-> "Err", val |-> FALSE, calls |-> <<l, c>>,
              store_id |-> "", model_id |-> None]
        ELSE init_store_model_and_tuples(c.id, TRUE, <<l, c>>, b)

\* OpenFGAClient::init_store.  b gives the backend's answer to each request
\* of the run; the result carries config.store_id and config.model_id as the
\* run leaves them.
init_store(store_name, b) ==
    LET l == client_list_stores(b.list)
        found == find_store(l.stores, store_name)
        c == client_create_store(store_name, b.create)
    IN  IF l.resp # "ok"
        THEN [res |-> "Err", val |-> FALSE, calls |-> <<l>>,
              store_id |-> "", model_id |-> None]
        ELSE IF found # None
        THEN init_store_model_and_tuples(found[1].id, FALSE, <<l>>, b)
        ELSE IF c.resp # "ok"
        THEN [res |-> "Err", val |-> FALSE, calls |-> <<l, c>>,
              store_id |-> "", model_id |-> None]
        ELSE init_store_model_and_tuples(c.id, TRUE, <<l, c>>, b)

\* OpenFGAClient::new: bootstrap runs only when the configuration names no store
OpenFGAClient_new(config_store_id, store_name, b) ==
    IF config_store_id = ""
    THEN init_store(store_name, b)
    ELSE [res |-> "Ok", val |-> FALSE, calls |-> <<>>,
          store_id |-> config_store_id, model_id |-> None]

\* the backend's stores after the requests of a run: a store created, a model
\* stored, tuple writes applied to the store the client addressed
bootstrap_effect(sts, r) ==
    LET created == { i \in 1..Len(r.calls) :
                       r.calls[i].kind = "create_store" /\ r.calls[i].resp = "ok" }
        base == IF created = {} THEN sts
                ELSE Append(sts, [id |-> r.calls[CHOOSE i \in created : TRUE].id,
                                  name |-> r.calls[CHOOSE i \in created : TRUE].name,
                                  tuples |-> {}, model |-> None])
        wrote_model == \E i \in 1..Len(r.calls) :
                          r.calls[i].kind = "write_model" /\ r.calls[i].resp = "ok"
    IN  [i \in 1..Len(base) |->
           IF base[i].id = r.store_id
           THEN [base[i] EXCEPT !.tuples = apply_calls(@, r.calls),
                                !.model = IF wrote_model THEN Some(ModelId(r.store_id)) ELSE @]
           ELSE base[i]]

\* the tuples of the store a client is configured with
tuples_of(sts, sid) ==
    IF \E i \in 1..Len(sts) : sts[i].id = sid
    THEN sts[CHOOSE i \in 1..Len(sts) : sts[i].id = sid].tuples
    ELSE {}

---------------------------------------------------------------------------
(* OpenFGAClient::read request by request.  The backend serves a sequence  *)
(* of pages [tuples, continuation_token]; the page it serves is the first  *)
(* for a request without token and the one after the page that carried the *)
(* token otherwise.                                                        *)

ReadPageSize == 2

\* the token the backend puts on its k-th page when more pages follow
Token(k) == "t" \o SubSeq(Digits, k + 1, k + 1)

\* continuation_token.is_none() || continuation_token is the empty string
token_ends(tok) == tok = None \/ tok[1] = ""

page_served(pages, tok) ==
    IF tok = None THEN 1
    ELSE (CHOOSE k \in 1..Len(pages) : pages[k].continuation_token = tok) + 1

\* the (api_filter, memory_filter) match of read
read_api_filter(filter) ==
    IF filter # None /\ filter[1].object = None THEN None ELSE filter

read_memory_filter(filter) ==
    IF filter # None /\ filter[1].object = None THEN filter ELSE None

\* the loop of read: request n carries tok; failAt is the request that fails
RECURSIVE read_loop(_, _, _, _, _, _, _)
read_loop(api_filter, pages, failAt, tok, n, all_tuples, calls) ==
    IF failAt = n
    THEN [ok |-> FALSE, tuples |-> <<>>,
          calls |-> Append(calls, [kind |-> "read", filter |-> api_filter,
                                   continuation_token |-> tok, sent |-> TRUE,
                                   resp |-> "OpenFGA", tuples |-> <<>>])]
    ELSE LET page == pages[page_served(pages, tok)]
             c == [kind |-> "read", filter |-> api_filter,
                   continuation_token |-> tok, sent |-> TRUE,
                   resp |-> "ok", tuples |-> page.tuples]
         IN  IF token_ends(page.continuation_token)
             THEN [ok |-> TRUE, tuples |-> all_tuples \o page.tuples,
                   calls |-> Append(calls, c)]
             ELSE read_loop(api_filter, pages, failAt, page.continuation_token,
                            n + 1, all_tuples \o page.tuples, Append(calls, c))

\* read returning after its first request
read_first_page_only(filter, pages, failAt) ==
    LET api_filter == read_api_filter(filter)
        memory_filter == read_memory_filter(filter)
    IN  IF store_id = ""
        THEN [res |-> "StoreNotFound", val |-> <<>>, calls |-> <<>>]
        ELSE IF failAt = 1
        THEN [res |-> "OpenFGA", val |-> <<>>,
              calls |-> <<[kind |-> "read", filter |-> api_filter,
                           continuation_token |-> None, sent |-> TRUE,
                           resp |-> "OpenFGA", tuples |-> <<>>]>>]
        ELSE [res |-> "Ok",
              val |-> IF memory_filter = None THEN pages[1].tuples
                      ELSE SelectSeq(pages[1].tuples,
                                     LAMBDA t : filter_matches(memory_filter[1], t)),
              calls |-> <<[kind |-> "read", filter |-> api_filter,
                           continuation_token |-> None, sent |-> TRUE,
                           resp |-> "ok", tuples |-> pages[1].tuples]>>]

\* read applying the memory filter to the user field only
read_memory_user_only(filter, pages, failAt) ==
    LET api_filter == read_api_filter(filter)
        memory_filter == read_memory_filter(filter)
        l == read_loop(api_filter, pages, failAt, None, 1, <<>>, <<>>)
    IN  IF store_id = ""
        THEN [res |-> "StoreNotFound", val |-> <<>>, calls |-> <<>>]
        ELSE IF ~l.ok
        THEN [res |-> "OpenFGA", val |-> <<>>, calls |-> l.calls]
        ELSE [res |-> "Ok",
              val |-> IF memory_filter = None THEN l.tuples
                      ELSE SelectSeq(l.tuples,
                                     LAMBDA t : memory_filter[1].user = None
                                                  \/ t.user = memory_filter[1].user[1]),
              calls |-> l.calls]

\* OpenFGAClient::read.  pages is what the backend serves for the filter the
\* requests carry; calls holds the requests sent.
read(filter, pages, failAt) ==
    LET api_filter == read_api_filter(filter)
        memory_filter == read_memory_filter(filter)
        l == read_loop(api_filter, pages, failAt, None, 1, <<>>, <<>>)
    IN  IF store_id = ""
        THEN [res |-> "StoreNotFound", val |-> <<>>, calls |-> <<>>]
        ELSE IF ~l.ok
        THEN [res |-> "OpenFGA", val |-> <<>>, calls |-> l.calls]
        ELSE [res |-> "Ok",
              val |-> IF memory_filter = None THEN l.tuples
                      ELSE SelectSeq(l.tuples,
                                     LAMBDA t : filter_matches(memory_filter[1], t)),
              calls |-> l.calls]

\* the pages a quiescent backend serves for a request filter on store st: the
\* tuples its equality filter selects, ReadPageSize to a page, the last page
\* carrying end_tok (no token, or the empty token)
backend_read_pages(st, api_filter, end_tok) ==
    LET hits == SetToSeq({ t \in st : api_filter = None
                                       \/ filter_matches(api_filter[1], t) })
        cs == IF hits = <<>> THEN << <<>> >> ELSE chunks(hits, ReadPageSize)
    IN  [k \in 1..Len(cs) |->
           [tuples |-> cs[k],
            continuation_token |-> IF k < Len(cs) THEN Some(Token(k)) ELSE end_tok]]

\* OpenFGAClient::write called directly
write(writes, deletes, fail) ==
    LET c == client_write(writes, deletes, fail)
    IN  [res |-> IF c.resp = "ok" THEN "Ok" ELSE c.resp, val |-> <<>>,
         calls |-> IF c.sent THEN <<c>> ELSE <<>>]

\* a gateway call's Result and the requests it sent
gateway_result(c, val) ==
    [res |-> IF c.resp \in {"ok", "allowed", "denied"} THEN "Ok" ELSE c.resp,
     val |-> val, calls |-> IF c.sent THEN <<c>> ELSE <<>>]

---------------------------------------------------------------------------
(* Resource Catalog entries: model/resources.rs and meta/mapping.rs *)

\* a catalog entry that is top-level whatever its parent
resource_always_top_level(key, label, parent, order, visible, has_entities) ==
    [key |-> key, label |-> label, parent |-> parent, order |-> order,
     visible |-> visible, top_level |-> TRUE, has_entities |-> has_entities]

\* resources.rs resource(): top_level is parent.is_none()
resource(key, label, parent, order, visible, has_entities) ==
    [key |-> key, label |-> label, parent |-> parent, order |-> order,
     visible |-> visible, top_level |-> (parent = None), has_entities |-> has_entities]

\* mapping.rs Resource::new
Resource_new(key, display_name, parent, order, visible, has_entities) ==
    [key |-> key, display_name |-> display_name, parent |-> parent, order |-> order,
     visible |-> visible, top_level |-> (parent = None), has_entities |-> has_entities]

\* the m.insert calls that build RESOURCE_TYPES, in order
RESOURCE_TYPES_inserts ==
    <<
      resource("user", "Users", None, 1, TRUE, TRUE),
      resource("group", "Groups", None, 2, TRUE, TRUE),
      resource("role", "Roles", None, 3, TRUE, TRUE),
      resource("org", "Organizations", None, 4, TRUE, FALSE),
      resource("stream", "Streams", None, 10, FALSE, TRUE),
      resource("logs", "Logs", Some("stream"), 11, TRUE, TRUE),
      resource("metrics", "Metrics", Some("stream"), 12, TRUE, TRUE),
      resource("traces", "Traces", Some("stream"), 13, TRUE, TRUE),
      resource("metadata", "Metadata", Some("stream"), 14, FALSE, TRUE),
      resource("index", "Index", Some("stream"), 15, TRUE, TRUE),
      resource("dfolder", "Dashboard Folders", None, 20, TRUE, TRUE),
      resource("dashboard", "Dashboards", Some("dfolder"), 21, TRUE, TRUE),
      resource("template", "Templates", None, 22, TRUE, TRUE),
      resource("savedviews", "Saved Views", None, 23, TRUE, TRUE),
      resource("afolder", "Alert Folders", None, 30, TRUE, TRUE),
      resource("alert", "Alerts", Some("afolder"), 31, TRUE, TRUE),
      resource("destination", "Destinations", None, 32, TRUE, TRUE),
      resource("rfolder", "Report Folders", None, 40, TRUE, TRUE),
      resource("report", "Reports", Some("rfolder"), 41, TRUE, TRUE),
      resource("function", "Functions", None, 50, TRUE, TRUE),
      resource("pipeline", "Pipelines", None, 51, TRUE, TRUE),
      resource("settings", "Settings", None, 60, TRUE, FALSE),
      resource("kv", "KV Store", None, 61, TRUE, TRUE),
      resource("enrichment_table", "Enrichment Tables", None, 62, TRUE, TRUE),
      resource("summary", "Summary", None, 63, TRUE, TRUE),
      resource("syslog-route", "Syslog Routes", None, 64, TRUE, TRUE),
      resource("passcode", "Passcodes", None, 70, TRUE, TRUE),
      resource("rumtoken", "RUM Tokens", None, 71, TRUE, TRUE),
      resource("service_accounts", "Service Accounts", None, 72, TRUE, TRUE),
      resource("cipher_keys", "Cipher Keys", None, 73, TRUE, TRUE),
      resource("search_jobs", "Search Jobs", None, 80, TRUE, TRUE),
      resource("action_scripts", "Action Scripts", None, 81, TRUE, TRUE),
      resource("ratelimit", "Rate Limits", None, 82, TRUE, TRUE),
      resource("ai", "AI", None, 83, TRUE, FALSE),
      resource("re_patterns", "Regex Patterns", None, 84, TRUE, TRUE),
      resource("license", "License", None, 90, TRUE, FALSE),
      resource("templates", "Templates", None, 22, TRUE, TRUE),
      resource("functions", "Functions", None, 50, TRUE, TRUE),
      resource("reports", "Reports", None, 41, TRUE, TRUE),
      resource("destinations", "Destinations", None, 32, TRUE, TRUE),
      resource("alert_folders", "Alert Folders", None, 30, TRUE, TRUE),
      resource("serviceaccounts", "Service Accounts", None, 72, TRUE, TRUE),
      resource("actionscripts", "Action Scripts", None, 81, TRUE, TRUE),
      resource("cipherkeys", "Cipher Keys", None, 73, TRUE, TRUE)
    >>

OFGA_MODELS ==
    <<
      Resource_new("user", "Users", None, 1, TRUE, TRUE),
      Resource_new("group", "Groups", None, 2, TRUE, TRUE),
      Resource_new("role", "Roles", None, 3, TRUE, TRUE),
      Resource_new("org", "Organizations", None, 4, TRUE, FALSE),
      Resource_new("stream", "Streams", None, 10, FALSE, TRUE),
      Resource_new("logs", "Logs", Some("stream"), 11, TRUE, TRUE),
      Resource_new("metrics", "Metrics", Some("stream"), 12, TRUE, TRUE),
      Resource_new("traces", "Traces", Some("stream"), 13, TRUE, TRUE),
      Resource_new("metadata", "Metadata", Some("stream"), 14, FALSE, TRUE),
      Resource_new("index", "Index", Some("stream"), 15, TRUE, TRUE),
      Resource_new("dfolder", "Dashboard Folders", None, 20, TRUE, TRUE),
      Resource_new("dashboard", "Dashboards", Some("dfolder"), 21, TRUE, TRUE),
      Resource_new("template", "Templates", None, 22, TRUE, TRUE),
      Resource_new("savedviews", "Saved Views", None, 23, TRUE, TRUE),
      Resource_new("afolder", "Alert Folders", None, 30, TRUE, TRUE),
      Resource_new("alert", "Alerts", Some("afolder"), 31, TRUE, TRUE),
      Resource_new("destination", "Destinations", None, 32, TRUE, TRUE),
      Resource_new("rfolder", "Report Folders", None, 40, TRUE, TRUE),
      Resource_new("report", "Reports", Some("rfolder"), 41, TRUE, TRUE),
      Resource_new("function", "Functions", None, 50, TRUE, TRUE),
      Resource_new("pipeline", "Pipelines", None, 51, TRUE, TRUE),
      Resource_new("settings", "Settings", None, 60, TRUE, FALSE),
      Resource_new("kv", "KV Store", None, 61, TRUE, TRUE),
      Resource_new("enrichment_table", "Enrichment Tables", None, 62, TRUE, TRUE),
      Resource_new("summary", "Summary", None, 63, TRUE, TRUE),
      Resource_new("syslog-route", "Syslog Routes", None, 64, TRUE, TRUE),
      Resource_new("passcode", "Passcodes", None, 70, TRUE, TRUE),
      Resource_new("rumtoken", "RUM Tokens", None, 71, TRUE, TRUE),
      Resource_new("service_accounts", "Service Accounts", None, 72, TRUE, TRUE),
      Resource_new("cipher_keys", "Cipher Keys", None, 73, TRUE, TRUE),
      Resource_new("search_jobs", "Search Jobs", None, 80, TRUE, TRUE),
      Resource_new("action_scripts", "Action Scripts", None, 81, TRUE, TRUE),
      Resource_new("ratelimit", "Rate Limits", None, 82, TRUE, TRUE),
      Resource_new("ai", "AI", None, 83, TRUE, FALSE),
      Resource_new("re_patterns", "Regex Patterns", None, 84, TRUE, TRUE),
      Resource_new("license", "License", None, 90, TRUE, FALSE)
    >>

\* HashMap::get on a map built by the inserts: the entry inserted last under
\* the key
map_get(inserts, key) ==
    LET hits == { i \in 1..Len(inserts) : inserts[i].key = key }
    IN  IF hits = {} THEN None
        ELSE Some(inserts[CHOOSE i \in hits : \A j \in hits : j <= i])

\* resources.rs get_resource
get_resource(key) == map_get(RESOURCE_TYPES_inserts, key)

---------------------------------------------------------------------------
(* Inputs *)

OrgIds == {"default", "o2"}
UserIds == {"alice@example.com"}
Methods == {"GET", "get", "POST", "PUT", "PATCH", "DELETE", "Delete", "HEAD"}
CheckRoles == {"root", "Root", "ROOT", "admin", "rooty", ""}
CheckObjects ==
    { "logs:my_stream", "logs:_all_default", "logs:_all_otherorg", "logs:_all",
      "logs:_allx", "logs:all", "dashboard:folder/dash1", "logs:a:b", "logs:",
      "no-colon", "", "bogus:x", "Logs:x", ":x", "bogus:_all_default" }
CheckAnswers == {"allowed", "denied", "error"}

NoOp == [op |-> "none", args |-> <<>>, res |-> "Ok", val |-> FALSE, calls |-> <<>>, pre |-> {}]

Done(op, args, r) ==
    [op |-> op, args |-> args, res |-> r.res, val |-> r.val, calls |-> r.calls, pre |-> store]

---------------------------------------------------------------------------
(* The Permission Checker as a state machine.  is_allowed keeps no state *)
(* between calls: a behaviour is a configuration and one call on it.     *)

InitChecker ==
    /\ store = {}
    /\ enabled \in BOOLEAN
    /\ model_id = None
    /\ list_only_permitted = TRUE
    /\ stores = <<>>
    /\ store_id \in {"", "01STORE"}
    /\ last = NoOp
    /\ prev = NoOp
    /\ inflight = <<>>

IsAllowed ==
    \E org_id \in OrgIds, user_id \in UserIds, method \in Methods,
       object \in CheckObjects, role \in CheckRoles, b \in CheckAnswers :
        /\ last = NoOp
        /\ last' = Done("is_allowed", <<org_id, user_id, method, object, role>>,
                        is_allowed(org_id, user_id, method, object, role, b))
        /\ UNCHANGED <<store, enabled, store_id, model_id, list_only_permitted, stores, prev, inflight>>

CheckPermissions ==
    \E org_id \in OrgIds, user_id \in UserIds, method \in Methods,
       object \in CheckObjects, role \in CheckRoles, b \in CheckAnswers :
        /\ last = NoOp
        /\ last' = Done("check_permissions", <<org_id, user_id, method, object, role>>,
                        check_permissions(user_id, org_id, method, object, role, b))
        /\ UNCHANGED <<store, enabled, store_id, model_id, list_only_permitted, stores, prev, inflight>>

NextChecker == IsAllowed \/ CheckPermissions

SpecChecker == InitChecker /\ [][NextChecker]_vars

---------------------------------------------------------------------------
(* The services as state machines.  A step is one handler run to its end *)
(* on the current store with no concurrent writer: the store afterwards  *)
(* is the store the handler's gateway calls leave behind.  failAt is the *)
(* position of the gateway call that fails in this run, 0 for none.      *)

MaxCalls == 3
FailPoints == 0..MaxCalls

ServiceOrgIds == {"default"}
RoleNames == {"dev", "admin", "Editor", "VIEWER"}
CustomRoleNames == {"dev"}
GroupNames == {"eng", "Eng"}
MemberGroupNames == {"eng"}
RolePermissionLists ==
    { << PermissionEntry("logs:_all_default", "AllowGet"),
         PermissionEntry("logs:default_app", "allowput"),
         PermissionEntry("nocolon", "AllowAll") >> }
\* tuples written through update_tuples directly: an ownership tuple on a
\* system role's object, and a grant to a group's member userset
RawTuples ==
    { TupleKey("org:default", "owningOrg", "role:default_admin"),
      TupleKey("group:default_eng#member", "assigned", "role:default_dev") }

InitService ==
    /\ store = {}
    /\ enabled = TRUE
    /\ model_id = None
    /\ list_only_permitted = TRUE
    /\ stores = <<>>
    /\ store_id \in {"", "01STORE"}
    /\ last = NoOp
    /\ prev = NoOp
    /\ inflight = <<>>

UpdateTuples ==
    \E t \in RawTuples, fail \in BOOLEAN :
        LET w == update_tuples(<<t>>, <<>>, fail)
        IN  /\ last' = Done("update_tuples", <<t>>,
                            [res |-> w.res, val |-> <<>>, calls |-> w.calls])
            /\ store' = apply_calls(store, w.calls)
            /\ UNCHANGED <<enabled, store_id, model_id, list_only_permitted, stores, prev, inflight>>

CreateRole ==
    \E org_id \in ServiceOrgIds, role_name \in RoleNames, failAt \in FailPoints :
        LET r == create_role(store, org_id, role_name, failAt)
        IN  /\ last' = Done("create_role", <<org_id, role_name>>, r)
            /\ store' = apply_calls(store, r.calls)
            /\ UNCHANGED <<enabled, store_id, model_id, list_only_permitted, stores, prev, inflight>>

ListRoles ==
    \E org_id \in ServiceOrgIds, fail \in BOOLEAN :
        LET r == list_roles(store, org_id, fail)
        IN  /\ last' = Done("list_roles", <<org_id>>, r)
            /\ store' = apply_calls(store, r.calls)
            /\ UNCHANGED <<enabled, store_id, model_id, list_only_permitted, stores, prev, inflight>>

DeleteRole ==
    \E org_id \in ServiceOrgIds, role_name \in RoleNames, failAt \in FailPoints :
        LET r == delete_role(store, org_id, role_name, failAt)
        IN  /\ last' = Done("delete_role", <<org_id, role_name>>, r)
            /\ store' = apply_calls(store, r.calls)
            /\ UNCHANGED <<enabled, store_id, model_id, list_only_permitted, stores, prev, inflight>>

AddRolePermissions ==
    \E org_id \in ServiceOrgIds, role_name \in CustomRoleNames,
       permissions \in RolePermissionLists, fail \in BOOLEAN :
        LET r == add_role_permissions(store, org_id, role_name, permissions, fail)
        IN  /\ last' = Done("add_role_permissions", <<org_id, role_name, permissions>>, r)
            /\ store' = apply_calls(store, r.calls)
            /\ UNCHANGED <<enabled, store_id, model_id, list_only_permitted, stores, prev, inflight>>

AddRoleUsers ==
    \E org_id \in ServiceOrgIds, role_name \in CustomRoleNames,
       users \in SUBSET UserIds, fail \in BOOLEAN :
        LET r == add_role_users(store, org_id, role_name, users, fail)
        IN  /\ last' = Done("add_role_users", <<org_id, role_name, users>>, r)
            /\ store' = apply_calls(store, r.calls)
            /\ UNCHANGED <<enabled, store_id, model_id, list_only_permitted, stores, prev, inflight>>

CreateGroup ==
    \E org_id \in ServiceOrgIds, name \in GroupNames, failAt \in FailPoints :
        LET r == create_group(store, org_id, name, failAt)
        IN  /\ last' = Done("create_group", <<org_id, name>>, r)
            /\ store' = apply_calls(store, r.calls)
            /\ UNCHANGED <<enabled, store_id, model_id, list_only_permitted, stores, prev, inflight>>

ListGroups ==
    \E org_id \in ServiceOrgIds, fail \in BOOLEAN :
        LET r == list_groups(store, org_id, fail)
        IN  /\ last' = Done("list_groups", <<org_id>>, r)
            /\ store' = apply_calls(store, r.calls)
            /\ UNCHANGED <<enabled, store_id, model_id, list_only_permitted, stores, prev, inflight>>

GetGroup ==
    \E org_id \in ServiceOrgIds, group_name \in GroupNames, failAt \in FailPoints :
        LET r == get_group(store, org_id, group_name, failAt)
        IN  /\ last' = Done("get_group", <<org_id, group_name>>, r)
            /\ store' = apply_calls(store, r.calls)
            /\ UNCHANGED <<enabled, store_id, model_id, list_only_permitted, stores, prev, inflight>>

DeleteGroup ==
    \E org_id \in ServiceOrgIds, group_name \in GroupNames, failAt \in FailPoints :
        LET r == delete_group(store, org_id, group_name, failAt)
        IN  /\ last' = Done("delete_group", <<org_id, group_name>>, r)
            /\ store' = apply_calls(store, r.calls)
            /\ UNCHANGED <<enabled, store_id, model_id, list_only_permitted, stores, prev, inflight>>

AddGroupUsers ==
    \E org_id \in ServiceOrgIds, group_name \in MemberGroupNames,
       users \in SUBSET UserIds, fail \in BOOLEAN :
        LET r == add_group_users(store, org_id, group_name, users, fail)
        IN  /\ last' = Done("add_group_users", <<org_id, group_name, users>>, r)
            /\ store' = apply_calls(store, r.calls)
            /\ UNCHANGED <<enabled, store_id, model_id, list_only_permitted, stores, prev, inflight>>

RemoveGroupUsers ==
    \E org_id \in ServiceOrgIds, group_name \in MemberGroupNames,
       users \in SUBSET UserIds, fail \in BOOLEAN :
        LET r == remove_group_users(store, org_id, group_name, users, fail)
        IN  /\ last' = Done("remove_group_users", <<org_id, group_name, users>>, r)
            /\ store' = apply_calls(store, r.calls)
            /\ UNCHANGED <<enabled, store_id, model_id, list_only_permitted, stores, prev, inflight>>

AddGroupRoles ==
    \E org_id \in ServiceOrgIds, group_name \in MemberGroupNames,
       roles \in SUBSET CustomRoleNames, fail \in BOOLEAN :
        LET r == add_group_roles(store, org_id, group_name, roles, fail)
        IN  /\ last' = Done("add_group_roles", <<org_id, group_name, roles>>, r)
            /\ store' = apply_calls(store, r.calls)
            /\ UNCHANGED <<enabled, store_id, model_id, list_only_permitted, stores, prev, inflight>>

RemoveGroupRoles ==
    \E org_id \in ServiceOrgIds, group_name \in MemberGroupNames,
       roles \in SUBSET CustomRoleNames, fail \in BOOLEAN :
        LET r == remove_group_roles(store, org_id, group_name, roles, fail)
        IN  /\ last' = Done("remove_group_roles", <<org_id, group_name, roles>>, r)
            /\ store' = apply_calls(store, r.calls)
            /\ UNCHANGED <<enabled, store_id, model_id, list_only_permitted, stores, prev, inflight>>

GetUserGroups ==
    \E org_id \in ServiceOrgIds, user_email \in UserIds, fail \in BOOLEAN :
        LET r == get_user_groups(store, org_id, user_email, fail)
        IN  /\ last' = Done("get_user_groups", <<org_id, user_email>>, r)
            /\ store' = apply_calls(store, r.calls)
            /\ UNCHANGED <<enabled, store_id, model_id, list_only_permitted, stores, prev, inflight>>

SaveOrgTuples ==
    \E org_id \in OrgIds, fail \in BOOLEAN :
        LET r == save_org_tuples(store, org_id, fail)
        IN  /\ last' = Done("save_org_tuples", <<org_id>>, r)
            /\ store' = apply_calls(store, r.calls)
            /\ UNCHANGED <<enabled, store_id, model_id, list_only_permitted, stores, prev, inflight>>

DeleteOrgTuples ==
    \E org_id \in OrgIds, failAt \in FailPoints :
        LET r == delete_org_tuples(store, org_id, failAt)
        IN  /\ last' = Done("delete_org_tuples", <<org_id>>, r)
            /\ store' = apply_calls(store, r.calls)
            /\ UNCHANGED <<enabled, store_id, model_id, list_only_permitted, stores, prev, inflight>>

\* Role Service, with the group operations that grant roles
NextRoles ==
    \/ CreateRole \/ ListRoles \/ DeleteRole \/ AddRolePermissions \/ AddRoleUsers
    \/ AddGroupUsers \/ AddGroupRoles \/ UpdateTuples

SpecRoles == InitService /\ [][NextRoles]_vars

\* Group Service
NextGroups ==
    \/ CreateGroup \/ ListGroups \/ GetGroup \/ DeleteGroup
    \/ AddGroupUsers \/ RemoveGroupUsers \/ AddGroupRoles \/ RemoveGroupRoles
    \/ GetUserGroups \/ UpdateTuples

SpecGroups == InitService /\ [][NextGroups]_vars

\* Org creation and deletion, with the operations that create objects an
\* org owns
NextOrg ==
    \/ SaveOrgTuples \/ DeleteOrgTuples \/ CreateRole \/ CreateGroup \/ AddGroupUsers

SpecOrg == InitService /\ [][NextOrg]_vars

---------------------------------------------------------------------------
(* Onboarding: add_user_to_org and the two removals, in sequence *)

OnboardRoles == {"admin", "Root", "Editor", "VIEWER", "user", "nobody"}

AddUserToOrg ==
    \E org_id \in ServiceOrgIds, user_email \in UserIds, role \in OnboardRoles,
       fail \in BOOLEAN :
        LET r == add_user_to_org(store, org_id, user_email, role, fail)
        IN  /\ last' = Done("add_user_to_org", <<org_id, user_email, role>>, r)
            /\ store' = apply_calls(store, r.calls)
            /\ prev' = last
            /\ UNCHANGED <<enabled, store_id, model_id, list_only_permitted, stores, inflight>>

DeleteUserFromOrg ==
    \E org_id \in ServiceOrgIds, user_email \in UserIds, fail \in BOOLEAN :
        LET r == delete_user_from_org(store, org_id, user_email, fail)
        IN  /\ last' = Done("delete_user_from_org", <<org_id, user_email>>, r)
            /\ store' = apply_calls(store, r.calls)
            /\ prev' = last
            /\ UNCHANGED <<enabled, store_id, model_id, list_only_permitted, stores, inflight>>

DeleteUserFromOrgWithRole ==
    \E org_id \in ServiceOrgIds, user_email \in UserIds, role \in OnboardRoles,
       fail \in BOOLEAN :
        LET r == delete_user_from_org_with_role(store, org_id, user_email, role, fail)
        IN  /\ last' = Done("delete_user_from_org_with_role", <<org_id, user_email, role>>, r)
            /\ store' = apply_calls(store, r.calls)
            /\ prev' = last
            /\ UNCHANGED <<enabled, store_id, model_id, list_only_permitted, stores, inflight>>

NextOnboarding == AddUserToOrg \/ DeleteUserFromOrg \/ DeleteUserFromOrgWithRole

SpecOnboarding == InitService /\ [][NextOnboarding]_vars

---------------------------------------------------------------------------
(* Role change: update_user_role on a user who was onboarded (or not) *)

UpdateRoles == {"admin", "root", "Editor", "viewer", "user", "ServiceAccount"}

\* the user holds nothing on the org, or what add_user_to_org wrote for a role
InitUserRole ==
    /\ store \in { Range(get_add_user_to_org_tuples(org_id, user_email, role, <<>>)) :
                     org_id \in ServiceOrgIds, user_email \in UserIds, role \in OnboardRoles }
                 \cup {{}}
    /\ enabled = TRUE
    /\ model_id = None
    /\ list_only_permitted = TRUE
    /\ stores = <<>>
    /\ store_id \in {"", "01STORE"}
    /\ last = NoOp
    /\ prev = NoOp
    /\ inflight = <<>>

UpdateUserRole ==
    \E org_id \in ServiceOrgIds, user_email \in UserIds, old_role \in UpdateRoles,
       new_role \in UpdateRoles, fail \in BOOLEAN :
        LET r == update_user_role(store, org_id, user_email, old_role, new_role, fail)
        IN  /\ last' = Done("update_user_role", <<org_id, user_email, old_role, new_role>>, r)
            /\ store' = apply_calls(store, r.calls)
            /\ UNCHANGED <<enabled, store_id, model_id, list_only_permitted, stores, prev, inflight>>

NextUserRole == UpdateUserRole

SpecUserRole == InitUserRole /\ [][NextUserRole]_vars

---------------------------------------------------------------------------
(* Group membership and role grants: the edges get_user_roles follows *)

\* what another group of the org may hold when the operations start
OtherGroupTuples ==
    { get_group_member_tuple("default", "qa", "alice@example.com"),
      get_group_role_tuple("default", "qa", "dev") }

InitMembership ==
    /\ store \in SUBSET OtherGroupTuples
    /\ enabled = TRUE
    /\ model_id = None
    /\ list_only_permitted = TRUE
    /\ stores = <<>>
    /\ store_id \in {"", "01STORE"}
    /\ last = NoOp
    /\ prev = NoOp
    /\ inflight = <<>>

RemoveRoleUsers ==
    \E org_id \in ServiceOrgIds, role_name \in CustomRoleNames,
       users \in SUBSET UserIds, fail \in BOOLEAN :
        LET r == remove_role_users(store, org_id, role_name, users, fail)
        IN  /\ last' = Done("remove_role_users", <<org_id, role_name, users>>, r)
            /\ store' = apply_calls(store, r.calls)
            /\ UNCHANGED <<enabled, store_id, model_id, list_only_permitted, stores, prev, inflight>>

GetUserRoles ==
    \E org_id \in ServiceOrgIds, user_email \in UserIds, failAt \in FailPoints :
        LET r == get_user_roles(store, org_id, user_email, failAt)
        IN  /\ last' = Done("get_user_roles", <<org_id, user_email>>, r)
            /\ store' = apply_calls(store, r.calls)
            /\ UNCHANGED <<enabled, store_id, model_id, list_only_permitted, stores, prev, inflight>>

NextMembership ==
    \/ AddGroupUsers \/ RemoveGroupUsers \/ AddGroupRoles \/ RemoveGroupRoles
    \/ AddRoleUsers \/ RemoveRoleUsers \/ GetUserRoles

SpecMembership == InitMembership /\ [][NextMembership]_vars

---------------------------------------------------------------------------
(* get_user_roles as a query: any store content, one read-only operation *)

RoleQueryTuples ==
    { get_user_crole_tuple("default", "ops", "alice@example.com"),
      get_user_crole_tuple("default", "Dev", "alice@example.com"),
      get_user_crole_tuple("o2", "sec", "alice@example.com"),
      get_user_crole_tuple("default", "bobs", "bob@example.com"),
      get_group_member_tuple("default", "eng", "alice@example.com"),
      get_group_member_tuple("default", "qa", "alice@example.com"),
      get_group_member_tuple("o2", "eng", "alice@example.com"),
      get_group_role_tuple("default", "eng", "ops"),
      get_group_role_tuple("default", "eng", "dev"),
      get_group_role_tuple("default", "qa", "dev"),
      TupleKey(group_type("o2", "eng"), "grp_assigned", role_type("default", "sec")) }

InitRolesQuery ==
    /\ store \in SUBSET RoleQueryTuples
    /\ enabled = TRUE
    /\ model_id = None
    /\ list_only_permitted = TRUE
    /\ stores = <<>>
    /\ store_id \in {"", "01STORE"}
    /\ last = NoOp
    /\ prev = NoOp
    /\ inflight = <<>>

NextRolesQuery == GetUserRoles \/ GetUserGroups

SpecRolesQuery == InitRolesQuery /\ [][NextRolesQuery]_vars

---------------------------------------------------------------------------
(* Granting a permission to a role and reading the role's permissions *)

GrantEntries ==
    { PermissionEntry("logs:_all_default", "AllowGet"),
      PermissionEntry("logs:my_stream", "AllowPut"),
      PermissionEntry("dashboard:default_d1", "AllowDelete") }
GrantResourceTypes == {"logs", "dashboard"}

\* add_role_permissions with a list of one entry
AddRolePermissionEntry ==
    \E org_id \in ServiceOrgIds, role_name \in CustomRoleNames,
       entry \in GrantEntries, fail \in BOOLEAN :
        LET r == add_role_permissions(store, org_id, role_name, <<entry>>, fail)
        IN  /\ last' = Done("add_role_permissions", <<org_id, role_name, <<entry>>>>, r)
            /\ store' = apply_calls(store, r.calls)
            /\ UNCHANGED <<enabled, store_id, model_id, list_only_permitted, stores, prev, inflight>>

GetRolePermissions ==
    \E org_id \in ServiceOrgIds, role_name \in CustomRoleNames,
       resource_type \in GrantResourceTypes, fail \in BOOLEAN :
        LET r == get_role_permissions(store, org_id, role_name, resource_type, fail)
        IN  /\ last' = Done("get_role_permissions", <<org_id, role_name, resource_type>>, r)
            /\ store' = apply_calls(store, r.calls)
            /\ UNCHANGED <<enabled, store_id, model_id, list_only_permitted, stores, prev, inflight>>

NextGrants == CreateRole \/ AddRolePermissionEntry \/ GetRolePermissions

SpecGrants == InitService /\ [][NextGrants]_vars

---------------------------------------------------------------------------
(* Assigning users to a role and unassigning them, in sequence *)

RoleUserEmails == {"a@example.com", "b@example.com"}

\* what the store may hold around the role when the operations start
RoleContextTuples ==
    { TupleKey("org:default", "owningOrg", role_type("default", "dev")),
      get_user_crole_tuple("default", "ops", "a@example.com"),
      get_group_role_tuple("default", "eng", "dev") }

InitRoleUsers ==
    /\ store \in SUBSET RoleContextTuples
    /\ enabled = TRUE
    /\ model_id = None
    /\ list_only_permitted = TRUE
    /\ stores = <<>>
    /\ store_id \in {"", "01STORE"}
    /\ last = NoOp
    /\ prev = NoOp
    /\ inflight = <<>>

AddUsers ==
    \E org_id \in ServiceOrgIds, role_name \in CustomRoleNames,
       users \in SUBSET RoleUserEmails, fail \in BOOLEAN :
        LET r == add_role_users(store, org_id, role_name, users, fail)
        IN  /\ last' = Done("add_role_users", <<org_id, role_name, users>>, r)
            /\ store' = apply_calls(store, r.calls)
            /\ prev' = last
            /\ UNCHANGED <<enabled, store_id, model_id, list_only_permitted, stores, inflight>>

RemoveUsers ==
    \E org_id \in ServiceOrgIds, role_name \in CustomRoleNames,
       users \in SUBSET RoleUserEmails, fail \in BOOLEAN :
        LET r == remove_role_users(store, org_id, role_name, users, fail)
        IN  /\ last' = Done("remove_role_users", <<org_id, role_name, users>>, r)
            /\ store' = apply_calls(store, r.calls)
            /\ prev' = last
            /\ UNCHANGED <<enabled, store_id, model_id, list_only_permitted, stores, inflight>>

NextRoleUsers == AddUsers \/ RemoveUsers

SpecRoleUsers == InitRoleUsers /\ [][NextRoleUsers]_vars

---------------------------------------------------------------------------
(* Creating roles and groups over names that exist in another letter case *)

\* what earlier operations may have left: a role and a group created under
\* another spelling, a group known only by a member tuple, and an ownership
\* tuple on a system role's object
CreatedBeforeTuples ==
    { TupleKey("org:default", "owningOrg", role_type("default", "Dev")),
      TupleKey("org:default", "owningOrg", role_type("default", "admin")),
      get_group_member_tuple("default", "ENG", "alice@example.com"),
      TupleKey("org:o2", "owningOrg", role_type("o2", "dev")) }

InitCreate ==
    /\ store \in SUBSET CreatedBeforeTuples
    /\ enabled = TRUE
    /\ model_id = None
    /\ list_only_permitted = TRUE
    /\ stores = <<>>
    /\ store_id \in {"", "01STORE"}
    /\ last = NoOp
    /\ prev = NoOp
    /\ inflight = <<>>

NextCreate ==
    \/ CreateRole \/ CreateGroup \/ ListRoles \/ ListGroups \/ DeleteRole \/ DeleteGroup

SpecCreate == InitCreate /\ [][NextCreate]_vars

---------------------------------------------------------------------------
(* list_objects_for_user: one call under each configuration.  The backend's *)
(* answer holds objects of the requested org and type, of another org, of   *)
(* another type, and one outside the resource namespace.                   *)

ListPermissions == {"AllowList", "allow_get", "ALLOWDELETE", "list"}
ListObjectTypes == {"logs", "dashboard"}
ListedObjects ==
    { <<>>,
      <<"resource:default_logs_app">>,
      <<"resource:o2_logs_b", "resource:default_logs_app",
        "resource:default_dashboard_d1", "logs:default_logs_x",
        "resource:default_logs_a_b", "resource:default_logs_">> }
ListAnswers ==
    { [ok |-> TRUE, objects |-> q] : q \in ListedObjects }
        \cup { [ok |-> FALSE, objects |-> <<>>] }

InitListObjects ==
    /\ store = {}
    /\ enabled \in BOOLEAN
    /\ list_only_permitted \in BOOLEAN
    /\ store_id \in {"", "01STORE"}
    /\ model_id = None
    /\ stores = <<>>
    /\ last = NoOp
    /\ prev = NoOp
    /\ inflight = <<>>

ListObjectsForUser ==
    \E org_id \in OrgIds, user_id \in UserIds, permission \in ListPermissions,
       object_type \in ListObjectTypes, role \in CheckRoles, b \in ListAnswers :
        /\ last.op = "none"
        /\ last' = Done("list_objects_for_user",
                        <<org_id, user_id, permission, object_type, role>>,
                        list_objects_for_user(org_id, user_id, permission,
                                              object_type, role, b))
        /\ UNCHANGED <<store, enabled, store_id, model_id, list_only_permitted, stores, prev, inflight>>

NextListObjects == ListObjectsForUser

SpecListObjects == InitListObjects /\ [][NextListObjects]_vars

---------------------------------------------------------------------------
(* Bootstrap as a state machine: every step constructs a client, from a   *)
(* configuration with or without a store id, against a backend that holds *)
(* stores from earlier runs and from other applications.                  *)

MaxExisting == 3
MaxStores == 4

StoreName == "openobserve"
StoreNames == {StoreName, "other"}
ConfiguredStoreIds == {"", "S1"}

\* the live permission state of a store in use
LiveTuples == { TupleKey("user:alice@example.com", "admin", "org:default") }

\* the stores the backend holds at the start: at most one has the configured
\* name, anywhere in the listing; a store is freshly created or in use
ExistingStores ==
    LET Entry == [name : StoreNames, live : BOOLEAN]
        Shapes == UNION { [1..n -> Entry] : n \in 0..MaxExisting }
    IN  { [i \in 1..Len(f) |->
             [id |-> StoreId(i), name |-> f[i].name,
              tuples |-> IF f[i].live THEN LiveTuples ELSE {},
              model |-> IF f[i].live THEN Some(ModelId(StoreId(i))) ELSE None]] :
          f \in { g \in Shapes :
                    Cardinality({ i \in 1..Len(g) : g[i].name = StoreName }) <= 1 } }

\* the backend's answers to the requests of one run
BootstrapAnswers ==
    [list : BOOLEAN, create : BOOLEAN, models : BOOLEAN, write_model : BOOLEAN,
     chunks : SUBSET {1, 2}]

InitBootstrap ==
    /\ stores \in ExistingStores
    /\ store = {}
    /\ enabled = TRUE
    /\ list_only_permitted = TRUE
    /\ store_id = ""
    /\ model_id = None
    /\ last = NoOp
    /\ prev = NoOp
    /\ inflight = <<>>

New ==
    \E config_store_id \in ConfiguredStoreIds, b \in BootstrapAnswers :
        /\ Len(stores) < MaxStores
        /\ LET r == OpenFGAClient_new(config_store_id, StoreName, b)
           IN  /\ last' = Done("new", <<config_store_id, StoreName>>, r)
               /\ stores' = bootstrap_effect(stores, r)
               /\ store_id' = IF r.res = "Ok" THEN r.store_id ELSE store_id
               /\ model_id' = IF r.res = "Ok" THEN r.model_id ELSE model_id
               /\ store' = tuples_of(bootstrap_effect(stores, r),
                                     IF r.res = "Ok" THEN r.store_id ELSE store_id)
               /\ UNCHANGED <<enabled, list_only_permitted, prev, inflight>>

NextBootstrap == New

SpecBootstrap == InitBootstrap /\ [][NextBootstrap]_vars

---------------------------------------------------------------------------
(* Bootstrap run again and again: the process is restarted after a failed *)
(* construction until a construction succeeds, and may be restarted after *)
(* that.                                                                  *)

NewSucceeds == New /\ last'.res = "Ok"

SpecBootstrapLive == InitBootstrap /\ [][NextBootstrap]_vars /\ WF_vars(NewSucceeds)

---------------------------------------------------------------------------
(* The Tuple Store Gateway called directly: one call of one operation, on *)
(* a client with or without a store id, over every content of a small     *)
(* store.                                                                 *)

MaxPages == 3

GatewayTuples ==
    { TupleKey("user:alice@example.com", "assigned", "role:default_dev"),
      TupleKey("user:alice@example.com", "member", "group:default_eng"),
      TupleKey("user:bob@example.com", "assigned", "role:default_dev") }

GatewayBatches ==
    {<<>>} \cup { <<t>> : t \in GatewayTuples }

ReadFilters ==
    { None,
      Some(TupleKeyFilter(None, None, None)),
      Some(TupleKeyFilter(Some("user:alice@example.com"), None, None)),
      Some(TupleKeyFilter(None, Some("assigned"), None)),
      Some(TupleKeyFilter(Some("user:alice@example.com"), Some("assigned"), None)),
      Some(TupleKeyFilter(None, None, Some("role:default_dev"))),
      Some(TupleKeyFilter(Some("user:bob@example.com"), Some("assigned"),
                          Some("role:default_dev"))) }

EndTokens == { None, Some("") }

\* what a backend serves while tuples are written between the requests: any
\* pages, a tuple possibly on two of them; every page but the last carries
\* a token
PageTuples ==
    { <<>>,
      <<TupleKey("user:alice@example.com", "assigned", "role:default_dev")>>,
      <<TupleKey("user:bob@example.com", "assigned", "role:default_dev"),
        TupleKey("user:alice@example.com", "assigned", "role:default_dev")>>,
      <<TupleKey("user:alice@example.com", "member", "group:default_eng")>> }

ServedPages ==
    { [k \in 1..Len(f) |->
         [tuples |-> f[k],
          continuation_token |-> IF k < Len(f) THEN Some(Token(k)) ELSE e]] :
      f \in UNION { [1..n -> PageTuples] : n \in 1..MaxPages }, e \in EndTokens }

InitGateway ==
    /\ store \in SUBSET GatewayTuples
    /\ enabled = TRUE
    /\ list_only_permitted = TRUE
    /\ store_id \in {"", "01STORE"}
    /\ model_id = None
    /\ stores = <<>>
    /\ last = NoOp
    /\ prev = NoOp
    /\ inflight = <<>>

Check ==
    \E t \in GatewayTuples, b \in CheckAnswers :
        /\ last.op = "none"
        /\ LET c == client_check(t, b)
           IN  last' = Done("check", <<t>>, gateway_result(c, c.resp = "allowed"))
        /\ UNCHANGED <<store, enabled, store_id, model_id, list_only_permitted, stores, prev, inflight>>

Write ==
    \E writes \in GatewayBatches, deletes \in GatewayBatches, fail \in BOOLEAN :
        /\ last.op = "none"
        /\ LET r == write(writes, deletes, fail)
           IN  /\ last' = Done("write", <<writes, deletes>>, r)
               /\ store' = apply_calls(store, r.calls)
        /\ UNCHANGED <<enabled, store_id, model_id, list_only_permitted, stores, prev, inflight>>

WriteBatch ==
    \E writes \in GatewayBatches, deletes \in GatewayBatches, fail \in BOOLEAN :
        /\ last.op = "none"
        /\ LET w == update_tuples(writes, deletes, fail)
               sent == SelectSeq(w.calls, LAMBDA c : c.sent)
           IN  /\ last' = Done("update_tuples", <<writes, deletes>>,
                               [res |-> w.res, val |-> <<>>, calls |-> sent])
               /\ store' = apply_calls(store, w.calls)
        /\ UNCHANGED <<enabled, store_id, model_id, list_only_permitted, stores, prev, inflight>>

Read ==
    \E filter \in ReadFilters, e \in EndTokens, failAt \in 0..MaxPages :
        /\ last.op = "none"
        /\ last' = Done("read", <<filter>>,
                        read(filter,
                             backend_read_pages(store, read_api_filter(filter), e),
                             failAt))
        /\ UNCHANGED <<store, enabled, store_id, model_id, list_only_permitted, stores, prev, inflight>>

ReadUnderWrites ==
    \E filter \in ReadFilters, pages \in ServedPages, failAt \in 0..MaxPages :
        /\ last.op = "none"
        /\ last' = Done("read_under_writes", <<filter, pages, failAt>>,
                        read(filter, pages, failAt))
        /\ UNCHANGED <<store, enabled, store_id, model_id, list_only_permitted, stores, prev, inflight>>

ListObjects ==
    \E user \in {"user:alice@example.com"}, relation \in {"can_read"},
       b \in ListAnswers :
        /\ last.op = "none"
        /\ LET c == client_list_objects(user, relation, "resource", b)
           IN  last' = Done("list_objects", <<user, relation, "resource">>,
                            gateway_result(c, c.objects))
        /\ UNCHANGED <<store, enabled, store_id, model_id, list_only_permitted, stores, prev, inflight>>

WriteAuthorizationModel ==
    \E ok \in BOOLEAN :
        /\ last.op = "none"
        /\ LET c == client_write_authorization_model(store_id, ok)
           IN  /\ last' = Done("write_authorization_model", <<>>,
                               gateway_result(c, c.model_id))
               /\ model_id' = IF c.resp = "ok" THEN c.model_id ELSE model_id
        /\ UNCHANGED <<store, enabled, store_id, list_only_permitted, stores, prev, inflight>>

GetLatestModelId ==
    \E ok \in BOOLEAN :
        /\ last.op = "none"
        /\ LET c == client_get_latest_model_id(store_id, ok)
           IN  last' = Done("get_latest_model_id", <<>>, gateway_result(c, c.model_id))
        /\ UNCHANGED <<store, enabled, store_id, model_id, list_only_permitted, stores, prev, inflight>>

NextGateway ==
    \/ Check
    \/ Write
    \/ WriteBatch
    \/ Read
    \/ ReadUnderWrites
    \/ ListObjects
    \/ WriteAuthorizationModel
    \/ GetLatestModelId

SpecGateway == InitGateway /\ [][NextGateway]_vars

---------------------------------------------------------------------------
(* The conversions between methods, permissions and relations: pure       *)
(* functions, one call on one input.                                      *)

\* every spelling of s that differs only in ASCII letter case
RECURSIVE CaseVariants(_)
CaseVariants(s) ==
    IF s = "" THEN {""}
    ELSE { c \o rest : c \in {to_lower_char(CharAt(s, 1)), to_upper_char(CharAt(s, 1))},
                       rest \in CaseVariants(SubSeq(s, 2, Len(s))) }

MethodInputs ==
    CaseVariants("get") \cup CaseVariants("post") \cup CaseVariants("put")
        \cup CaseVariants("patch") \cup CaseVariants("delete")
        \cup {"HEAD", "OPTIONS", "", "GETS", "GE", "LIST"}

PermissionNames ==
    {"AllowAll", "AllowList", "AllowGet", "AllowPost", "AllowPut", "AllowDelete"}

AllowRelations ==
    {"ALLOW_ALL", "ALLOW_LIST", "ALLOW_GET", "ALLOW_POST", "ALLOW_PUT", "ALLOW_DELETE"}

PermissionInputs ==
    PermissionNames
        \cup { to_lowercase(p) : p \in PermissionNames }
        \cup { to_uppercase(p) : p \in PermissionNames }
        \cup {"allowDelete", "aLLOWaLL", "allow_get", "ALLOW_ALL", "Allow", "get", "",
              "AllowGets", "AllowAl"}

RelationInputs ==
    AllowRelations
        \cup { to_lowercase(r) : r \in AllowRelations }
        \cup {"can_read", "admin", "AllowAll", "ALLOW", "", "ALLOW_GETS"}

InitConversions ==
    /\ store = {}
    /\ enabled = TRUE
    /\ list_only_permitted = TRUE
    /\ store_id = "01STORE"
    /\ model_id = None
    /\ stores = <<>>
    /\ last = NoOp
    /\ prev = NoOp
    /\ inflight = <<>>

FromMethod ==
    \E method \in MethodInputs, is_list \in BOOLEAN :
        /\ last.op = "none"
        /\ last' = Done("from_method", <<method, is_list>>,
                        [res |-> "Ok", val |-> from_method(method, is_list),
                         calls |-> <<>>])
        /\ UNCHANGED <<store, enabled, store_id, model_id, list_only_permitted, stores, prev, inflight>>

ToRelation ==
    \E permission \in PermissionNames :
        /\ last.op = "none"
        /\ last' = Done("to_relation", <<permission>>,
                        [res |-> "Ok", val |-> to_relation(permission), calls |-> <<>>])
        /\ UNCHANGED <<store, enabled, store_id, model_id, list_only_permitted, stores, prev, inflight>>

PermissionToRelation ==
    \E permission \in PermissionInputs :
        /\ last.op = "none"
        /\ last' = Done("permission_to_relation", <<permission>>,
                        [res |-> "Ok", val |-> permission_to_relation(permission),
                         calls |-> <<>>])
        /\ UNCHANGED <<store, enabled, store_id, model_id, list_only_permitted, stores, prev, inflight>>

RelationToPermission ==
    \E relation \in RelationInputs :
        /\ last.op = "none"
        /\ last' = Done("relation_to_permission", <<relation>>,
                        [res |-> "Ok", val |-> relation_to_permission(relation),
                         calls |-> <<>>])
        /\ UNCHANGED <<store, enabled, store_id, model_id, list_only_permitted, stores, prev, inflight>>

NextConversions ==
    \/ FromMethod
    \/ ToRelation
    \/ PermissionToRelation
    \/ RelationToPermission

SpecConversions == InitConversions /\ [][NextConversions]_vars

---------------------------------------------------------------------------
(* The Resource Catalog looked up by key: one lookup of one key, known or *)
(* not, in either table.                                                  *)

CatalogKeys ==
    RESOURCE_TYPES \cup CaseVariants("logs") \cup CaseVariants("stream")
        \cup {"", "folder", "resource", "streams", "dfolders"}

InitCatalog ==
    /\ store = {}
    /\ enabled = TRUE
    /\ list_only_permitted = TRUE
    /\ store_id = "01STORE"
    /\ model_id = None
    /\ stores = <<>>
    /\ last = NoOp
    /\ prev = NoOp
    /\ inflight = <<>>

GetResource ==
    \E key \in CatalogKeys :
        /\ last.op = "none"
        /\ last' = Done("get_resource", <<key>>,
                        [res |-> "Ok", val |-> get_resource(key), calls |-> <<>>])
        /\ UNCHANGED <<store, enabled, store_id, model_id, list_only_permitted, stores, prev, inflight>>

OfgaModelsGet ==
    \E key \in CatalogKeys :
        /\ last.op = "none"
        /\ last' = Done("OFGA_MODELS.get", <<key>>,
                        [res |-> "Ok", val |-> map_get(OFGA_MODELS, key), calls |-> <<>>])
        /\ UNCHANGED <<store, enabled, store_id, model_id, list_only_permitted, stores, prev, inflight>>

NextCatalog == GetResource \/ OfgaModelsGet

SpecCatalog == InitCatalog /\ [][NextCatalog]_vars

---------------------------------------------------------------------------
(* Granting and revoking lists of permissions whose entries may be        *)
(* malformed or name a type outside the Resource Catalog                  *)

InputEntries ==
    { PermissionEntry("logs:app", "AllowGet"),
      PermissionEntry("dashboard:_all_default", "AllowPut"),
      PermissionEntry("nocolon", "AllowAll"),
      PermissionEntry("widgets:w1", "AllowGet") }

InputPermissionLists ==
    { <<e>> : e \in InputEntries } \cup { <<e, f>> : e, f \in InputEntries }

\* the grants the role may hold when a call starts
HeldGrants ==
    Range(role_permission_tuples("default", "dev",
              << PermissionEntry("logs:app", "AllowGet"),
                 PermissionEntry("widgets:w1", "AllowGet") >>))

InitPermissionInput ==
    /\ store \in SUBSET HeldGrants
    /\ enabled = TRUE
    /\ list_only_permitted = TRUE
    /\ store_id \in {"", "01STORE"}
    /\ model_id = None
    /\ stores = <<>>
    /\ last = NoOp
    /\ prev = NoOp
    /\ inflight = <<>>

AddPermissions ==
    \E permissions \in InputPermissionLists, fail \in BOOLEAN :
        LET r == add_role_permissions(store, "default", "dev", permissions, fail)
        IN  /\ last' = Done("add_role_permissions", <<"default", "dev", permissions>>, r)
            /\ store' = apply_calls(store, r.calls)
            /\ UNCHANGED <<enabled, store_id, model_id, list_only_permitted, stores, prev, inflight>>

RemovePermissions ==
    \E permissions \in InputPermissionLists, fail \in BOOLEAN :
        LET r == remove_role_permissions(store, "default", "dev", permissions, fail)
        IN  /\ last' = Done("remove_role_permissions", <<"default", "dev", permissions>>, r)
            /\ store' = apply_calls(store, r.calls)
            /\ UNCHANGED <<enabled, store_id, model_id, list_only_permitted, stores, prev, inflight>>

NextPermissionInput == AddPermissions \/ RemovePermissions

SpecPermissionInput == InitPermissionInput /\ [][NextPermissionInput]_vars

---------------------------------------------------------------------------
(* A list of permissions granted to a role and then revoked: one call of  *)
(* add_role_permissions followed by one call of remove_role_permissions   *)

RevokeOrgIds == {"default", "acme"}

RevokeEntryLists ==
    { << PermissionEntry("logs:app", "AllowGet") >>,
      << PermissionEntry("logs:_all_default", "allowput") >>,
      << PermissionEntry("logs:_all", "AllowDelete") >>,
      << PermissionEntry("logs:_allx", "bogus") >>,
      << PermissionEntry("dashboard:folder/d1", "AllowAll") >>,
      << PermissionEntry("nocolon", "AllowAll") >>,
      << PermissionEntry("logs:app", "AllowGet"),
         PermissionEntry("logs:_all_default", "AllowList") >>,
      << PermissionEntry("logs:a:b", "AllowPost"),
         PermissionEntry("nocolon", "AllowGet") >>,
      << PermissionEntry("logs:app", "AllowGet"),
         PermissionEntry("logs:app", "AllowGet") >> }

\* tuples the store may hold before the grant: one the grant writes again,
\* one of another role, one that is not a grant
RevokeStoreTuples ==
    { TupleKey("role:default_dev#has", "ALLOW_GET", "logs:app"),
      TupleKey("role:default_ops#has", "ALLOW_GET", "logs:app"),
      TupleKey("user:alice@example.com", "assignee", "role:default_dev") }

InitRevoke ==
    /\ store \in SUBSET RevokeStoreTuples
    /\ enabled = TRUE
    /\ list_only_permitted = TRUE
    /\ store_id \in {"", "01STORE"}
    /\ model_id = None
    /\ stores = <<>>
    /\ last = NoOp
    /\ prev = NoOp
    /\ inflight = <<>>

GrantPermissions ==
    /\ last.op = "none"
    /\ \E org_id \in RevokeOrgIds, permissions \in RevokeEntryLists, fail \in BOOLEAN :
        LET r == add_role_permissions(store, org_id, "dev", permissions, fail)
        IN  /\ last' = Done("add_role_permissions", <<org_id, "dev", permissions>>, r)
            /\ prev' = last
            /\ store' = apply_calls(store, r.calls)
            /\ UNCHANGED <<enabled, store_id, model_id, list_only_permitted, stores, inflight>>

RevokePermissions ==
    /\ last.op = "add_role_permissions"
    /\ \E org_id \in RevokeOrgIds, permissions \in RevokeEntryLists, fail \in BOOLEAN :
        LET r == remove_role_permissions(store, org_id, "dev", permissions, fail)
        IN  /\ last' = Done("remove_role_permissions", <<org_id, "dev", permissions>>, r)
            /\ prev' = last
            /\ store' = apply_calls(store, r.calls)
            /\ UNCHANGED <<enabled, store_id, model_id, list_only_permitted, stores, inflight>>

NextRevoke == GrantPermissions \/ RevokePermissions

SpecRevoke == InitRevoke /\ [][NextRevoke]_vars

---------------------------------------------------------------------------
(* One administrative operation on a store that holds a role, a group and *)
(* an org member, with any one of its backend requests failing            *)

AdminTuples ==
    { TupleKey("org:default", "owningOrg", "role:default_dev"),
      TupleKey("user:alice@example.com", "assigned", "role:default_dev"),
      TupleKey("role:default_dev#has", "ALLOW_GET", "logs:app"),
      TupleKey("org:default", "owningOrg", "group:default_eng"),
      TupleKey("user:alice@example.com", "member", "group:default_eng"),
      TupleKey("user:alice@example.com", "admin", "org:default") }

InitAdmin ==
    /\ store \in SUBSET AdminTuples
    /\ enabled = TRUE
    /\ model_id = None
    /\ list_only_permitted = TRUE
    /\ stores = <<>>
    /\ store_id \in {"", "01STORE"}
    /\ last = NoOp
    /\ prev = NoOp
    /\ inflight = <<>>

CreateRoleOnce ==
    /\ last.op = "none"
    /\ \E org_id \in ServiceOrgIds, role_name \in RoleNames \cup {"ops"}, failAt \in FailPoints :
        LET r == create_role(store, org_id, role_name, failAt)
        IN  /\ last' = Done("create_role", <<org_id, role_name>>, r)
            /\ store' = apply_calls(store, r.calls)
            /\ UNCHANGED <<enabled, store_id, model_id, list_only_permitted, stores, prev, inflight>>

DeleteRoleOnce ==
    /\ last.op = "none"
    /\ \E org_id \in ServiceOrgIds, role_name \in RoleNames, failAt \in FailPoints :
        LET r == delete_role(store, org_id, role_name, failAt)
        IN  /\ last' = Done("delete_role", <<org_id, role_name>>, r)
            /\ store' = apply_calls(store, r.calls)
            /\ UNCHANGED <<enabled, store_id, model_id, list_only_permitted, stores, prev, inflight>>

CreateGroupOnce ==
    /\ last.op = "none"
    /\ \E org_id \in ServiceOrgIds, name \in GroupNames \cup {"qa"}, failAt \in FailPoints :
        LET r == create_group(store, org_id, name, failAt)
        IN  /\ last' = Done("create_group", <<org_id, name>>, r)
            /\ store' = apply_calls(store, r.calls)
            /\ UNCHANGED <<enabled, store_id, model_id, list_only_permitted, stores, prev, inflight>>

DeleteGroupOnce ==
    /\ last.op = "none"
    /\ \E org_id \in ServiceOrgIds, group_name \in GroupNames, failAt \in FailPoints :
        LET r == delete_group(store, org_id, group_name, failAt)
        IN  /\ last' = Done("delete_group", <<org_id, group_name>>, r)
            /\ store' = apply_calls(store, r.calls)
            /\ UNCHANGED <<enabled, store_id, model_id, list_only_permitted, stores, prev, inflight>>

DeleteOrgTuplesOnce ==
    /\ last.op = "none"
    /\ \E org_id \in OrgIds, failAt \in FailPoints :
        LET r == delete_org_tuples(store, org_id, failAt)
        IN  /\ last' = Done("delete_org_tuples", <<org_id>>, r)
            /\ store' = apply_calls(store, r.calls)
            /\ UNCHANGED <<enabled, store_id, model_id, list_only_permitted, stores, prev, inflight>>

GetGroupOnce ==
    /\ last.op = "none"
    /\ \E org_id \in ServiceOrgIds, group_name \in GroupNames, failAt \in FailPoints :
        LET r == get_group(store, org_id, group_name, failAt)
        IN  /\ last' = Done("get_group", <<org_id, group_name>>, r)
            /\ store' = apply_calls(store, r.calls)
            /\ UNCHANGED <<enabled, store_id, model_id, list_only_permitted, stores, prev, inflight>>

AddRoleUsersOnce ==
    /\ last.op = "none"
    /\ \E org_id \in ServiceOrgIds, role_name \in CustomRoleNames,
          users \in SUBSET UserIds, fail \in BOOLEAN :
        LET r == add_role_users(store, org_id, role_name, users, fail)
        IN  /\ last' = Done("add_role_users", <<org_id, role_name, users>>, r)
            /\ store' = apply_calls(store, r.calls)
            /\ UNCHANGED <<enabled, store_id, model_id, list_only_permitted, stores, prev, inflight>>

RemoveGroupUsersOnce ==
    /\ last.op = "none"
    /\ \E org_id \in ServiceOrgIds, group_name \in MemberGroupNames,
          users \in SUBSET UserIds, fail \in BOOLEAN :
        LET r == remove_group_users(store, org_id, group_name, users, fail)
        IN  /\ last' = Done("remove_group_users", <<org_id, group_name, users>>, r)
            /\ store' = apply_calls(store, r.calls)
            /\ UNCHANGED <<enabled, store_id, model_id, list_only_permitted, stores, prev, inflight>>

NextAdmin ==
    \/ CreateRoleOnce \/ DeleteRoleOnce \/ CreateGroupOnce \/ DeleteGroupOnce
    \/ DeleteOrgTuplesOnce \/ GetGroupOnce \/ AddRoleUsersOnce \/ RemoveGroupUsersOnce

SpecAdmin == InitAdmin /\ [][NextAdmin]_vars

---------------------------------------------------------------------------
(* An administrative operation called and then called again: each action *)
(* is the first call of a run or the call that follows a call of the same *)
(* operation.                                                             *)

RepeatUsers == SUBSET {"alice@example.com", "bob@example.com"}
RepeatRoles == SUBSET {"dev", "ops"}
RepeatPermissionLists ==
    { << PermissionEntry("logs:app", "AllowGet") >>,
      << PermissionEntry("logs:_all_default", "AllowPut"),
         PermissionEntry("nocolon", "AllowAll") >>,
      << PermissionEntry("logs:app", "AllowGet"),
         PermissionEntry("logs:app", "AllowGet") >> }

RepeatTuples ==
    { TupleKey("org:default", "owningOrg", "role:default_dev"),
      TupleKey("user:alice@example.com", "assigned", "role:default_dev"),
      TupleKey("role:default_dev#has", "ALLOW_GET", "logs:app"),
      TupleKey("user:alice@example.com", "member", "group:default_eng"),
      TupleKey("group:default_eng#member", "assigned", "role:default_dev"),
      TupleKey("user:alice@example.com", "admin", "org:default") }

InitRepeat ==
    /\ store \in SUBSET RepeatTuples
    /\ enabled = TRUE
    /\ model_id = None
    /\ list_only_permitted = TRUE
    /\ stores = <<>>
    /\ store_id \in {"", "01STORE"}
    /\ last = NoOp
    /\ prev = NoOp
    /\ inflight = <<>>

RepeatAddRoleUsers ==
    /\ prev.op = "none"
    /\ last.op \in {"none", "add_role_users"}
    /\ \E org_id \in ServiceOrgIds, role_name \in CustomRoleNames, users \in RepeatUsers, fail \in BOOLEAN :
        LET r == add_role_users(store, org_id, role_name, users, fail)
        IN  /\ last' = Done("add_role_users", <<org_id, role_name, users>>, r)
            /\ prev' = last
            /\ store' = apply_calls(store, r.calls)
            /\ UNCHANGED <<enabled, store_id, model_id, list_only_permitted, stores, inflight>>

RepeatRemoveRoleUsers ==
    /\ prev.op = "none"
    /\ last.op \in {"none", "remove_role_users"}
    /\ \E org_id \in ServiceOrgIds, role_name \in CustomRoleNames, users \in RepeatUsers, fail \in BOOLEAN :
        LET r == remove_role_users(store, org_id, role_name, users, fail)
        IN  /\ last' = Done("remove_role_users", <<org_id, role_name, users>>, r)
            /\ prev' = last
            /\ store' = apply_calls(store, r.calls)
            /\ UNCHANGED <<enabled, store_id, model_id, list_only_permitted, stores, inflight>>

RepeatAddRolePermissions ==
    /\ prev.op = "none"
    /\ last.op \in {"none", "add_role_permissions"}
    /\ \E org_id \in ServiceOrgIds, role_name \in CustomRoleNames, permissions \in RepeatPermissionLists, fail \in BOOLEAN :
        LET r == add_role_permissions(store, org_id, role_name, permissions, fail)
        IN  /\ last' = Done("add_role_permissions", <<org_id, role_name, permissions>>, r)
            /\ prev' = last
            /\ store' = apply_calls(store, r.calls)
            /\ UNCHANGED <<enabled, store_id, model_id, list_only_permitted, stores, inflight>>

RepeatRemoveRolePermissions ==
    /\ prev.op = "none"
    /\ last.op \in {"none", "remove_role_permissions"}
    /\ \E org_id \in ServiceOrgIds, role_name \in CustomRoleNames, permissions \in RepeatPermissionLists, fail \in BOOLEAN :
        LET r == remove_role_permissions(store, org_id, role_name, permissions, fail)
        IN  /\ last' = Done("remove_role_permissions", <<org_id, role_name, permissions>>, r)
            /\ prev' = last
            /\ store' = apply_calls(store, r.calls)
            /\ UNCHANGED <<enabled, store_id, model_id, list_only_permitted, stores, inflight>>

RepeatAddGroupUsers ==
    /\ prev.op = "none"
    /\ last.op \in {"none", "add_group_users"}
    /\ \E org_id \in ServiceOrgIds, group_name \in MemberGroupNames, users \in RepeatUsers, fail \in BOOLEAN :
        LET r == add_group_users(store, org_id, group_name, users, fail)
        IN  /\ last' = Done("add_group_users", <<org_id, group_name, users>>, r)
            /\ prev' = last
            /\ store' = apply_calls(store, r.calls)
            /\ UNCHANGED <<enabled, store_id, model_id, list_only_permitted, stores, inflight>>

RepeatRemoveGroupUsers ==
    /\ prev.op = "none"
    /\ last.op \in {"none", "remove_group_users"}
    /\ \E org_id \in ServiceOrgIds, group_name \in MemberGroupNames, users \in RepeatUsers, fail \in BOOLEAN :
        LET r == remove_group_users(store, org_id, group_name, users, fail)
        IN  /\ last' = Done("remove_group_users", <<org_id, group_name, users>>, r)
            /\ prev' = last
            /\ store' = apply_calls(store, r.calls)
            /\ UNCHANGED <<enabled, store_id, model_id, list_only_permitted, stores, inflight>>

RepeatAddGroupRoles ==
    /\ prev.op = "none"
    /\ last.op \in {"none", "add_group_roles"}
    /\ \E org_id \in ServiceOrgIds, group_name \in MemberGroupNames, roles \in RepeatRoles, fail \in BOOLEAN :
        LET r == add_group_roles(store, org_id, group_name, roles, fail)
        IN  /\ last' = Done("add_group_roles", <<org_id, group_name, roles>>, r)
            /\ prev' = last
            /\ store' = apply_calls(store, r.calls)
            /\ UNCHANGED <<enabled, store_id, model_id, list_only_permitted, stores, inflight>>

RepeatRemoveGroupRoles ==
    /\ prev.op = "none"
    /\ last.op \in {"none", "remove_group_roles"}
    /\ \E org_id \in ServiceOrgIds, group_name \in MemberGroupNames, roles \in RepeatRoles, fail \in BOOLEAN :
        LET r == remove_group_roles(store, org_id, group_name, roles, fail)
        IN  /\ last' = Done("remove_group_roles", <<org_id, group_name, roles>>, r)
            /\ prev' = last
            /\ store' = apply_calls(store, r.calls)
            /\ UNCHANGED <<enabled, store_id, model_id, list_only_permitted, stores, inflight>>

RepeatDeleteRole ==
    /\ prev.op = "none"
    /\ last.op \in {"none", "delete_role"}
    /\ \E org_id \in ServiceOrgIds, role_name \in {"dev", "Dev", "admin"}, failAt \in FailPoints :
        LET r == delete_role(store, org_id, role_name, failAt)
        IN  /\ last' = Done("delete_role", <<org_id, role_name>>, r)
            /\ prev' = last
            /\ store' = apply_calls(store, r.calls)
            /\ UNCHANGED <<enabled, store_id, model_id, list_only_permitted, stores, inflight>>

RepeatDeleteGroup ==
    /\ prev.op = "none"
    /\ last.op \in {"none", "delete_group"}
    /\ \E org_id \in ServiceOrgIds, group_name \in GroupNames, failAt \in FailPoints :
        LET r == delete_group(store, org_id, group_name, failAt)
        IN  /\ last' = Done("delete_group", <<org_id, group_name>>, r)
            /\ prev' = last
            /\ store' = apply_calls(store, r.calls)
            /\ UNCHANGED <<enabled, store_id, model_id, list_only_permitted, stores, inflight>>

RepeatDeleteOrgTuples ==
    /\ prev.op = "none"
    /\ last.op \in {"none", "delete_org_tuples"}
    /\ \E org_id \in OrgIds, failAt \in FailPoints :
        LET r == delete_org_tuples(store, org_id, failAt)
        IN  /\ last' = Done("delete_org_tuples", <<org_id>>, r)
            /\ prev' = last
            /\ store' = apply_calls(store, r.calls)
            /\ UNCHANGED <<enabled, store_id, model_id, list_only_permitted, stores, inflight>>

NextRepeat ==
    \/ RepeatAddRoleUsers
    \/ RepeatRemoveRoleUsers
    \/ RepeatAddRolePermissions
    \/ RepeatRemoveRolePermissions
    \/ RepeatAddGroupUsers
    \/ RepeatRemoveGroupUsers
    \/ RepeatAddGroupRoles
    \/ RepeatRemoveGroupRoles
    \/ RepeatDeleteRole
    \/ RepeatDeleteGroup
    \/ RepeatDeleteOrgTuples

SpecRepeat == InitRepeat /\ [][NextRepeat]_vars

---------------------------------------------------------------------------
(* Concurrent callers of create_role and create_group.  A call is two     *)
(* backend requests, the read of list_roles (list_groups) and the write   *)
(* of the ownership tuple; between them other callers' requests may be    *)
(* served.  inflight[i] is caller i's call: pc is the request it is about *)
(* to send, existing what its read returned.                              *)

MaxCallers == 2

ConcurrentRoleNames == {"dev", "Dev", "ops", "admin"}
ConcurrentGroupNames == {"eng", "ENG"}

InitConcurrent ==
    /\ store \in SUBSET { TupleKey("org:default", "owningOrg", role_type("default", "ops")),
                          TupleKey("org:default", "owningOrg", group_type("default", "qa")) }
    /\ enabled = TRUE
    /\ model_id = None
    /\ list_only_permitted = TRUE
    /\ stores = <<>>
    /\ store_id = "01STORE"
    /\ last = NoOp
    /\ prev = NoOp
    /\ inflight = <<>>

\* a caller enters create_role
CreateRoleCall ==
    \E role_name \in ConcurrentRoleNames :
        /\ Len(inflight) < MaxCallers
        /\ inflight' = Append(inflight, [op |-> "create_role", org_id |-> "default",
                                         name |-> role_name, pc |-> "list",
                                         existing |-> <<>>, res |-> "pending"])
        /\ UNCHANGED <<store, enabled, store_id, model_id, list_only_permitted, stores, last, prev>>

\* let existing = list_roles(org_id).await?; and the two tests on it
CreateRoleList ==
    \E i \in 1..Len(inflight), fail \in BOOLEAN :
        /\ inflight[i].op = "create_role" /\ inflight[i].pc = "list"
        /\ LET c == inflight[i]
               existing == list_roles(store, c.org_id, fail)
               res == IF existing.res # "Ok" THEN existing.res
                      ELSE IF \E r \in Range(existing.val) : eq_ignore_ascii_case(r, c.name)
                      THEN "DuplicateEntry"
                      ELSE IF is_system_role(c.name) THEN "Validation"
                      ELSE "pending"
           IN  /\ inflight' = [inflight EXCEPT ![i] =
                                 [c EXCEPT !.existing = existing.val,
                                           !.pc = IF res = "pending" THEN "write" ELSE "done",
                                           !.res = res]]
               /\ last' = IF res = "pending" THEN last
                          ELSE Done("create_role", <<c.org_id, c.name>>,
                                    [res |-> res, val |-> <<>>, calls |-> existing.calls])
        /\ UNCHANGED <<store, enabled, store_id, model_id, list_only_permitted, stores, prev>>

\* tuples::update_tuples(vec![tuple], vec![]).await?
CreateRoleWrite ==
    \E i \in 1..Len(inflight), fail \in BOOLEAN :
        /\ inflight[i].op = "create_role" /\ inflight[i].pc = "write"
        /\ LET c == inflight[i]
               tuple == TupleKey("org:" \o c.org_id, "owningOrg", role_type(c.org_id, c.name))
               w == update_tuples(<<tuple>>, <<>>, fail)
           IN  /\ inflight' = [inflight EXCEPT ![i] = [c EXCEPT !.pc = "done", !.res = w.res]]
               /\ store' = apply_calls(store, w.calls)
               /\ last' = Done("create_role", <<c.org_id, c.name>>,
                               [res |-> w.res, val |-> <<>>, calls |-> w.calls])
        /\ UNCHANGED <<enabled, store_id, model_id, list_only_permitted, stores, prev>>

\* a caller enters create_group
CreateGroupCall ==
    \E name \in ConcurrentGroupNames :
        /\ Len(inflight) < MaxCallers
        /\ inflight' = Append(inflight, [op |-> "create_group", org_id |-> "default",
                                         name |-> name, pc |-> "list",
                                         existing |-> <<>>, res |-> "pending"])
        /\ UNCHANGED <<store, enabled, store_id, model_id, list_only_permitted, stores, last, prev>>

\* let existing = list_groups(org_id).await?; and the test on it
CreateGroupList ==
    \E i \in 1..Len(inflight), fail \in BOOLEAN :
        /\ inflight[i].op = "create_group" /\ inflight[i].pc = "list"
        /\ LET c == inflight[i]
               existing == list_groups(store, c.org_id, fail)
               res == IF existing.res # "Ok" THEN existing.res
                      ELSE IF \E g \in Range(existing.val) : eq_ignore_ascii_case(g, c.name)
                      THEN "DuplicateEntry"
                      ELSE "pending"
           IN  /\ inflight' = [inflight EXCEPT ![i] =
                                 [c EXCEPT !.existing = existing.val,
                                           !.pc = IF res = "pending" THEN "write" ELSE "done",
                                           !.res = res]]
               /\ last' = IF res = "pending" THEN last
                          ELSE Done("create_group", <<c.org_id, c.name>>,
                                    [res |-> res, val |-> <<>>, calls |-> existing.calls])
        /\ UNCHANGED <<store, enabled, store_id, model_id, list_only_permitted, stores, prev>>

\* tuples::update_tuples(vec![tuple], vec![]).await?
CreateGroupWrite ==
    \E i \in 1..Len(inflight), fail \in BOOLEAN :
        /\ inflight[i].op = "create_group" /\ inflight[i].pc = "write"
        /\ LET c == inflight[i]
               tuple == TupleKey("org:" \o c.org_id, "owningOrg", group_type(c.org_id, c.name))
               w == update_tuples(<<tuple>>, <<>>, fail)
           IN  /\ inflight' = [inflight EXCEPT ![i] = [c EXCEPT !.pc = "done", !.res = w.res]]
               /\ store' = apply_calls(store, w.calls)
               /\ last' = Done("create_group", <<c.org_id, c.name>>,
                               [res |-> w.res, val |-> <<>>, calls |-> w.calls])
        /\ UNCHANGED <<enabled, store_id, model_id, list_only_permitted, stores, prev>>

NextConcurrent ==
    \/ CreateRoleCall \/ CreateRoleList \/ CreateRoleWrite
    \/ CreateGroupCall \/ CreateGroupList \/ CreateGroupWrite

SpecConcurrent == InitConcurrent /\ [][NextConcurrent]_vars

---------------------------------------------------------------------------
(* Two orgs, the id of one being the id of the other followed by "_b",   *)
(* and the Role Service and Group Service operations that write tuples    *)

IsolationOrgIds == {"a", "a_b"}

InitIsolation ==
    /\ store \in SUBSET { get_group_member_tuple("a", "eng", "alice@example.com"),
                          get_user_crole_tuple("a", "dev", "alice@example.com") }
    /\ enabled = TRUE
    /\ model_id = None
    /\ list_only_permitted = TRUE
    /\ stores = <<>>
    /\ store_id = "01STORE"
    /\ last = NoOp
    /\ prev = NoOp
    /\ inflight = <<>>

OrgCreateGroup ==
    \E org_id \in IsolationOrgIds, name \in MemberGroupNames, failAt \in FailPoints :
        LET r == create_group(store, org_id, name, failAt)
        IN  /\ last' = Done("create_group", <<org_id, name>>, r)
            /\ store' = apply_calls(store, r.calls)
            /\ UNCHANGED <<enabled, store_id, model_id, list_only_permitted, stores, prev, inflight>>

OrgAddGroupUsers ==
    \E org_id \in IsolationOrgIds, group_name \in MemberGroupNames,
       users \in SUBSET UserIds, fail \in BOOLEAN :
        LET r == add_group_users(store, org_id, group_name, users, fail)
        IN  /\ last' = Done("add_group_users", <<org_id, group_name, users>>, r)
            /\ store' = apply_calls(store, r.calls)
            /\ UNCHANGED <<enabled, store_id, model_id, list_only_permitted, stores, prev, inflight>>

OrgAddGroupRoles ==
    \E org_id \in IsolationOrgIds, group_name \in MemberGroupNames,
       roles \in SUBSET CustomRoleNames, fail \in BOOLEAN :
        LET r == add_group_roles(store, org_id, group_name, roles, fail)
        IN  /\ last' = Done("add_group_roles", <<org_id, group_name, roles>>, r)
            /\ store' = apply_calls(store, r.calls)
            /\ UNCHANGED <<enabled, store_id, model_id, list_only_permitted, stores, prev, inflight>>

OrgAddRoleUsers ==
    \E org_id \in IsolationOrgIds, role_name \in CustomRoleNames,
       users \in SUBSET UserIds, fail \in BOOLEAN :
        LET r == add_role_users(store, org_id, role_name, users, fail)
        IN  /\ last' = Done("add_role_users", <<org_id, role_name, users>>, r)
            /\ store' = apply_calls(store, r.calls)
            /\ UNCHANGED <<enabled, store_id, model_id, list_only_permitted, stores, prev, inflight>>

OrgRemoveGroupUsers ==
    \E org_id \in IsolationOrgIds, group_name \in MemberGroupNames,
       users \in SUBSET UserIds, fail \in BOOLEAN :
        LET r == remove_group_users(store, org_id, group_name, users, fail)
        IN  /\ last' = Done("remove_group_users", <<org_id, group_name, users>>, r)
            /\ store' = apply_calls(store, r.calls)
            /\ UNCHANGED <<enabled, store_id, model_id, list_only_permitted, stores, prev, inflight>>

NextIsolation ==
    \/ OrgCreateGroup \/ OrgAddGroupUsers \/ OrgAddGroupRoles \/ OrgAddRoleUsers
    \/ OrgRemoveGroupUsers

SpecIsolation == InitIsolation /\ [][NextIsolation]_vars

---------------------------------------------------------------------------
(* A user added to an org and then changing role any number of times:     *)
(* each update_user_role is called with the role the step before it set,  *)
(* and the run ends at the first call that fails.                         *)

CareerRoles == {"admin", "root", "Editor", "viewer", "user", "ServiceAccount", "auditor"}
CareerUsers == {"alice@example.com", "bob@example.com"}

InitCareer ==
    /\ store \in SUBSET { TupleKey("user:carol@example.com", "admin", "org:default"),
                          TupleKey("user:alice@example.com", "editor", "org:o2") }
    /\ enabled = TRUE
    /\ model_id = None
    /\ list_only_permitted = TRUE
    /\ stores = <<>>
    /\ store_id \in {"", "01STORE"}
    /\ last = NoOp
    /\ prev = NoOp
    /\ inflight = <<>>

JoinOrg ==
    /\ last.op = "none"
    /\ \E user_email \in CareerUsers, role \in CareerRoles, fail \in BOOLEAN :
        LET r == add_user_to_org(store, "default", user_email, role, fail)
        IN  /\ last' = Done("add_user_to_org", <<"default", user_email, role>>, r)
            /\ store' = apply_calls(store, r.calls)
            /\ UNCHANGED <<enabled, store_id, model_id, list_only_permitted, stores, prev, inflight>>

ChangeRole ==
    /\ last.op \in {"add_user_to_org", "update_user_role"}
    /\ last.res = "Ok"
    /\ \E new_role \in CareerRoles, fail \in BOOLEAN :
        LET org_id == last.args[1]
            user_email == last.args[2]
            old_role == last.args[Len(last.args)]
            r == update_user_role(store, org_id, user_email, old_role, new_role, fail)
        IN  /\ last' = Done("update_user_role", <<org_id, user_email, old_role, new_role>>, r)
            /\ store' = apply_calls(store, r.calls)
            /\ UNCHANGED <<enabled, store_id, model_id, list_only_permitted, stores, prev, inflight>>

NextCareer == JoinOrg \/ ChangeRole

SpecCareer == InitCareer /\ [][NextCareer]_vars

---------------------------------------------------------------------------
(* The tuple builders of service/tuples.rs: pure functions, one call on *)
(* chosen arguments.                                                     *)

BuilderEmails == {"alice@example.com", "Bob@Example.com"}
BuilderRoles ==
    { "root", "Root", "ROOT", "admin", "Admin", "editor", "Editor", "EDITOR",
      "viewer", "Viewer", "user", "serviceaccount", "service_account",
      "member", "administrator", "" }
\* what the caller's Vec holds before the builder pushes onto it
BuilderPriorVecs == { <<>>, << TupleKey("org:default", "member", "org:default") >> }

InitBuilders ==
    /\ store = {}
    /\ enabled = TRUE
    /\ model_id = None
    /\ list_only_permitted = TRUE
    /\ stores = <<>>
    /\ store_id = "01STORE"
    /\ last = NoOp
    /\ prev = NoOp
    /\ inflight = <<>>

GetAddUserToOrgTuples ==
    \E org_id \in OrgIds, user_email \in BuilderEmails, role \in BuilderRoles,
       tuples \in BuilderPriorVecs :
        /\ last.op = "none"
        /\ last' = Done("get_add_user_to_org_tuples", <<org_id, user_email, role, tuples>>,
                        [res |-> "Ok", calls |-> <<>>,
                         val |-> get_add_user_to_org_tuples(org_id, user_email, role, tuples)])
        /\ UNCHANGED <<store, enabled, store_id, model_id, list_only_permitted, stores, prev, inflight>>

GetDeleteUserSystemRoleTuples ==
    \E org_id \in OrgIds, user_email \in BuilderEmails, role \in BuilderRoles,
       tuples \in BuilderPriorVecs :
        /\ last.op = "none"
        /\ last' = Done("get_delete_user_system_role_tuples",
                        <<org_id, user_email, role, tuples>>,
                        [res |-> "Ok", calls |-> <<>>,
                         val |-> get_delete_user_system_role_tuples(org_id, user_email,
                                                                    role, tuples)])
        /\ UNCHANGED <<store, enabled, store_id, model_id, list_only_permitted, stores, prev, inflight>>

GetDeleteAllUserFromOrgTuples ==
    \E org_id \in OrgIds, user_email \in BuilderEmails, tuples \in BuilderPriorVecs :
        /\ last.op = "none"
        /\ last' = Done("get_delete_all_user_from_org_tuples", <<org_id, user_email, tuples>>,
                        [res |-> "Ok", calls |-> <<>>,
                         val |-> get_delete_all_user_from_org_tuples(org_id, user_email, tuples)])
        /\ UNCHANGED <<store, enabled, store_id, model_id, list_only_permitted, stores, prev, inflight>>

NextBuilders ==
    GetAddUserToOrgTuples \/ GetDeleteUserSystemRoleTuples \/ GetDeleteAllUserFromOrgTuples

SpecBuilders == InitBuilders /\ [][NextBuilders]_vars

---------------------------------------------------------------------------
(* Properties of the Permission Checker *)

ArgOrg == last.args[1]
ArgUser == last.args[2]
ArgMethod == last.args[3]
ArgObject == last.args[4]
ArgRole == last.args[5]

\* every spelling of "root" that differs only in ASCII letter case
RootSpellings ==
    { a \o b \o c \o d : a \in {"r", "R"}, b \in {"o", "O"}, c \in {"o", "O"}, d \in {"t", "T"} }

HasColon(o) == \E i \in 1..Len(o) : CharAt(o, i) = ":"
FirstColon(o) ==
    CHOOSE i \in 1..Len(o) : CharAt(o, i) = ":" /\ \A j \in 1..(i - 1) : CharAt(o, j) # ":"
TypePrefix(o) == SubSeq(o, 1, FirstColon(o) - 1)
EntityPart(o) == SubSeq(o, FirstColon(o) + 1, Len(o))

FailedCheckCall ==
    \E i \in 1..Len(last.calls) :
        last.calls[i].kind = "check" /\ last.calls[i].resp \in {"error", "StoreNotFound"}

\* C1: with authorization enabled and a non-root role, when the check call fails
\* (network error, non-2xx, or no store id) is_allowed returns Ok(false), never an
\* error and never true, and check_permissions returns false.
C1_CheckFailureDenies ==
    (/\ last.op \in {"is_allowed", "check_permissions"}
     /\ enabled
     /\ ArgRole \notin RootSpellings
     /\ FailedCheckCall)
    => (last.res = "Ok" /\ last.val = FALSE)

C1_Witness ==
    /\ last.op = "is_allowed"
    /\ enabled
    /\ ArgRole = "admin"
    /\ Len(last.calls) = 1
    /\ last.calls[1].sent
    /\ last.calls[1].resp = "error"
    /\ last.val = FALSE

\* C2: is_allowed returns allow for every org, user, method and object whenever
\* authorization is disabled or the role is "root" in any letter case, and it makes
\* no check call.
C2_RootAndDisabledBypass ==
    (/\ last.op = "is_allowed"
     /\ (~enabled \/ ArgRole \in RootSpellings))
    => (last.res = "Ok" /\ last.val = TRUE /\ last.calls = <<>>)

C2_Witness ==
    /\ last.op = "is_allowed"
    /\ enabled
    /\ ArgRole = "ROOT"
    /\ ArgObject = "no-colon"
    /\ last.val = TRUE

\* C3: for a non-root caller with authorization enabled, is_allowed denies without
\* any check call when the object has no ':' or when the part before its first ':'
\* is not a key of the Resource Catalog.
C3_MalformedOrUnknownDenied ==
    (/\ last.op = "is_allowed"
     /\ enabled
     /\ ArgRole \notin RootSpellings
     /\ (~HasColon(ArgObject) \/ TypePrefix(ArgObject) \notin RESOURCE_TYPES))
    => (last.res = "Ok" /\ last.val = FALSE /\ last.calls = <<>>)

C3_Witness ==
    /\ last.op = "is_allowed"
    /\ enabled
    /\ ArgRole = "admin"
    /\ ArgObject = "Logs:x"
    /\ last.val = FALSE
    /\ last.calls = <<>>

\* the internal check relation the claim names for a method and the list flag
ExpectedRelation(method, isList) ==
    CASE method \in {"GET", "get"} /\ isList -> "can_list"
      [] method \in {"GET", "get"} /\ ~isList -> "can_read"
      [] method = "POST" -> "can_create"
      [] method \in {"PUT", "PATCH"} -> "can_update"
      [] method \in {"DELETE", "Delete"} -> "can_delete"
      [] OTHER -> "can_read"

\* C4: for a non-root caller with authorization enabled and a well-formed object
\* of a catalog type, is_allowed makes exactly one check call, on the tuple
\* (user:<userId>, relation(method, isList), obj) with isList iff the entity id
\* starts with "_all", obj = "<type>:_all_<orgId>" when isList and
\* "<type>:<entityId>" otherwise; it returns true iff the backend answered allowed.
C4_CheckTupleAndResult ==
    (/\ last.op = "is_allowed"
     /\ enabled
     /\ ArgRole \notin RootSpellings
     /\ HasColon(ArgObject)
     /\ TypePrefix(ArgObject) \in RESOURCE_TYPES)
    => LET type == TypePrefix(ArgObject)
           entity == EntityPart(ArgObject)
           isList == starts_with(entity, "_all")
           obj == IF isList THEN type \o ":_all_" \o ArgOrg ELSE type \o ":" \o entity
       IN  /\ Len(last.calls) = 1
           /\ last.calls[1].kind = "check"
           /\ last.calls[1].key =
                  [user |-> "user:" \o ArgUser,
                   relation |-> ExpectedRelation(ArgMethod, isList),
                   object |-> obj]
           /\ last.res = "Ok"
           /\ last.val = (last.calls[1].resp = "allowed")

C4_Witness ==
    /\ last.op = "is_allowed"
    /\ enabled
    /\ ArgOrg = "default"
    /\ ArgObject = "logs:_all_otherorg"
    /\ ArgMethod = "get"
    /\ Len(last.calls) = 1
    /\ last.calls[1].key.object = "logs:_all_default"
    /\ last.calls[1].key.relation = "can_list"
    /\ last.calls[1].resp = "allowed"
    /\ last.val = TRUE

---------------------------------------------------------------------------
(* Properties of the Role Service *)

LowerSystemNames == {"admin", "editor", "viewer"}
IsSystemName(name) == to_lowercase(name) \in LowerSystemNames

WriteCalls(op) == { i \in 1..Len(op.calls) : op.calls[i].kind = "write" }

\* C5: for every name equal ignoring case to admin, editor or viewer,
\* create_role(org, name) and delete_role(org, name) fail with Validation and
\* issue no write or delete; a list_roles result never contains such a name,
\* whatever ownership tuples the store holds.
C5_SystemRoleNamesRejected ==
    /\ (last.op \in {"create_role", "delete_role"} /\ IsSystemName(last.args[2])) =>
            /\ last.res = "Validation"
            /\ WriteCalls(last) = {}
    /\ (last.op = "list_roles" /\ last.res = "Ok") =>
            \A i \in 1..Len(last.val) : ~IsSystemName(last.val[i])

\* C6: after a successful delete_role(org, r) the store holds no tuple whose
\* object is role:<org>_<r> and none whose subject is role:<org>_<r>#has; on
\* that store list_roles omits r, get_role_users and get_role_permissions
\* return nothing, and get_user_roles omits r for every user.
C6_DeleteRoleRemovesRole ==
    (last.op = "delete_role" /\ last.res = "Ok") =>
        LET org == last.args[1]
            r == last.args[2]
            obj == "role:" \o org \o "_" \o r
        IN  /\ \A t \in store : t.object # obj /\ t.user # obj \o "#has"
            /\ \A i \in 1..Len(list_roles(store, org, FALSE).val) :
                    list_roles(store, org, FALSE).val[i] # r
            /\ get_role_users(store, org, r, FALSE).val = <<>>
            /\ \A ty \in RESOURCE_TYPES :
                    get_role_permissions(store, org, r, ty, FALSE).val = <<>>
            /\ \A u \in UserIds :
                    \A i \in 1..Len(get_user_roles(store, org, u, 0).val) :
                        get_user_roles(store, org, u, 0).val[i] # r

\* a role that was owned, assigned to a user, granted to a group and holding
\* permissions has been deleted
C6_Witness ==
    /\ last.op = "delete_role"
    /\ last.res = "Ok"
    /\ LET obj == "role:" \o last.args[1] \o "_" \o last.args[2]
       IN  /\ \E t \in last.pre : t.object = obj /\ t.relation = "owningOrg"
           /\ \E t \in last.pre : t.object = obj /\ t.relation = "assigned"
           /\ \E t \in last.pre : t.object = obj /\ t.relation = "grp_assigned"
           /\ \E t \in last.pre : t.user = obj \o "#has"
           /\ \E t \in store : t.object = "group:default_eng"

---------------------------------------------------------------------------
(* Properties of the Group Service *)

\* C7: after a successful delete_group(org, g) no tuple of the store mentions
\* group:<org>_<g> as object or as subject; get_group returns GroupNotFound,
\* list_groups omits g, and a group created again under the name has no roles.
C7_DeleteGroupRemovesGroup ==
    (last.op = "delete_group" /\ last.res = "Ok") =>
        LET org == last.args[1]
            g == last.args[2]
            obj == "group:" \o org \o "_" \o g
            again == apply_calls(store, create_group(store, org, g, 0).calls)
        IN  /\ \A t \in store :
                    t.object # obj /\ t.user # obj /\ t.user # obj \o "#member"
            /\ get_group(store, org, g, 0).res = "GroupNotFound"
            /\ \A i \in 1..Len(list_groups(store, org, FALSE).val) :
                    list_groups(store, org, FALSE).val[i] # g
            /\ get_group(again, org, g, 0).res = "Ok" =>
                    get_group(again, org, g, 0).val.roles = <<>>

---------------------------------------------------------------------------
(* Properties of the Org Lifecycle *)

\* the object is the org, or one the org owns: a type wildcard, a role or a group
OwnedBy(object, org) ==
    \/ object = "org:" \o org
    \/ HasColon(object) /\ EntityPart(object) = "_all_" \o org
    \/ starts_with(object, "role:" \o org \o "_")
    \/ starts_with(object, "group:" \o org \o "_")

\* C8: delete_org_tuples(org) issues one read filtered by the object org:<org>
\* and then deletes every returned key; after it succeeds no tuple whose
\* object is org:<org> or an object owned by the org remains.
C8_DeleteOrgRemovesOrg ==
    last.op = "delete_org_tuples" =>
        LET org == last.args[1]
            n == Len(last.calls)
        IN  /\ n \in {1, 2}
            /\ last.calls[1].kind = "read"
            /\ last.calls[1].filter = Some(TupleKeyFilter(None, None, Some("org:" \o org)))
            /\ n = 2 =>
                    /\ last.calls[2].kind = "write"
                    /\ last.calls[2].writes = <<>>
                    /\ last.calls[2].deletes = last.calls[1].tuples
            /\ last.res = "Ok" => \A t \in store : ~OwnedBy(t.object, org)

UserOrgRelations == {"admin", "editor", "viewer", "allowed_user", "org_context"}

UserOrgTuples(st, org, u) ==
    { t \in st : t.user = "user:" \o u /\ t.object = "org:" \o org
                 /\ t.relation \in UserOrgRelations }

AllFive(org, u) ==
    { [user |-> "user:" \o u, relation |-> R, object |-> "org:" \o org] :
        R \in UserOrgRelations }

\* a successful add_user_to_org followed at once by a successful removal of the
\* same user from the same org
RemovedAfterAdd(removal) ==
    /\ prev.op = "add_user_to_org"
    /\ prev.res = "Ok"
    /\ last.op = removal
    /\ last.res = "Ok"
    /\ last.args[1] = prev.args[1]
    /\ last.args[2] = prev.args[2]

C9_WitnessRoleUnknown ==
    /\ RemovedAfterAdd("delete_user_from_org")
    /\ prev.args[3] = "user"
    /\ Cardinality(UserOrgTuples(last.pre, last.args[1], last.args[2])) >= 2
    /\ UserOrgTuples(store, last.args[1], last.args[2]) = {}

---------------------------------------------------------------------------
(* Properties of the tuple builders *)

ExpectedOrgRelation(role) ==
    CASE to_lowercase(role) \in {"root", "admin"} -> "admin"
      [] to_lowercase(role) = "editor" -> "editor"
      [] to_lowercase(role) = "viewer" -> "viewer"
      [] OTHER -> "allowed_user"

\* C10: get_add_user_to_org_tuples appends exactly two tuples, in this order:
\* (user:<email>, R, org:<org>) and (user:<email>, org_context, org:<org>),
\* R being admin for root or admin, editor for editor, viewer for viewer and
\* allowed_user for every other role string, compared ignoring case.
C10_AddUserToOrgTuples ==
    last.op = "get_add_user_to_org_tuples" =>
        LET org == last.args[1]
            email == last.args[2]
            role == last.args[3]
            before == last.args[4]
        IN  last.val = before \o
                << [user |-> "user:" \o email, relation |-> ExpectedOrgRelation(role),
                    object |-> "org:" \o org],
                   [user |-> "user:" \o email, relation |-> "org_context",
                    object |-> "org:" \o org] >>

\* the scenario of the builder's test, onto a Vec that held a tuple already
C10_Witness ==
    /\ last.op = "get_add_user_to_org_tuples"
    /\ last.args[1] = "default"
    /\ last.args[2] = "alice@example.com"
    /\ last.args[3] = "Editor"
    /\ Len(last.args[4]) = 1
    /\ Len(last.val) = 3
    /\ last.val[2] = [user |-> "user:alice@example.com", relation |-> "editor",
                      object |-> "org:default"]
    /\ last.val[3] = [user |-> "user:alice@example.com", relation |-> "org_context",
                      object |-> "org:default"]

---------------------------------------------------------------------------
(* Properties of update_user_role *)

OrgContextTuple(org, u) ==
    [user |-> "user:" \o u, relation |-> "org_context", object |-> "org:" \o org]

\* C11: update_user_role(org, u, old, new) makes no gateway call when old and
\* new map to the same relation; otherwise it makes exactly one write call
\* carrying the one delete (user:u, rel(old), org:<org>) and the one write
\* (user:u, rel(new), org:<org>); the org_context tuple is never written or
\* deleted.
C11_UpdateUserRoleBatch ==
    last.op = "update_user_role" =>
        LET org == last.args[1]
            u == last.args[2]
            old == ExpectedOrgRelation(last.args[3])
            new == ExpectedOrgRelation(last.args[4])
        IN  /\ old = new => (last.calls = <<>> /\ last.res = "Ok" /\ store = last.pre)
            /\ old # new =>
                    /\ Len(last.calls) = 1
                    /\ last.calls[1].kind = "write"
                    /\ last.calls[1].deletes =
                           << [user |-> "user:" \o u, relation |-> old,
                               object |-> "org:" \o org] >>
                    /\ last.calls[1].writes =
                           << [user |-> "user:" \o u, relation |-> new,
                               object |-> "org:" \o org] >>
            /\ (OrgContextTuple(org, u) \in store) = (OrgContextTuple(org, u) \in last.pre)

\* an onboarded editor made viewer: one batch, org_context kept
C11_Witness ==
    /\ last.op = "update_user_role"
    /\ last.res = "Ok"
    /\ last.args[3] = "Editor"
    /\ last.args[4] = "viewer"
    /\ Len(last.calls) = 1
    /\ OrgContextTuple(last.args[1], last.args[2]) \in store
    /\ [user |-> "user:" \o last.args[2], relation |-> "editor",
        object |-> "org:" \o last.args[1]] \in last.pre
    /\ [user |-> "user:" \o last.args[2], relation |-> "viewer",
        object |-> "org:" \o last.args[1]] \in store

\* the same-relation case: root made admin, nothing sent
C11_WitnessNoOp ==
    /\ last.op = "update_user_role"
    /\ last.args[3] = "root"
    /\ last.args[4] = "admin"
    /\ last.calls = <<>>

---------------------------------------------------------------------------
(* Properties of get_user_roles *)

MemberEdge(org, g, u) ==
    [user |-> "user:" \o u, relation |-> "member", object |-> "group:" \o org \o "_" \o g]

GrantEdge(org, g, r) ==
    [user |-> "group:" \o org \o "_" \o g, relation |-> "grp_assigned",
     object |-> "role:" \o org \o "_" \o r]

DirectEdge(org, u, r) ==
    [user |-> "user:" \o u, relation |-> "assigned", object |-> "role:" \o org \o "_" \o r]

\* the role names get_user_roles answers on a store whose reads succeed
UserRolesOn(st, org, u) == Range(get_user_roles(st, org, u, 0).val)

\* group names other than g through which the store grants r to u
OtherGrants(st, org, g, u, r) ==
    { h \in {"eng", "qa"} \ {g} : MemberEdge(org, h, u) \in st /\ GrantEdge(org, h, r) \in st }

\* C12: once add_group_roles(org, g, {r}) and add_group_users(org, g, {u}) have
\* both succeeded, in either order and however often, get_user_roles(org, u)
\* includes r; when u has no direct assignment to r and no other group grants
\* it, a successful remove_group_users(org, g, {u}) or
\* remove_group_roles(org, g, {r}) leaves get_user_roles(org, u) without r.
C12_GroupEdgesGrantRole ==
    \A u \in UserIds, r \in CustomRoleNames :
        LET org == last.args[1]
            g == last.args[2]
            mine == r \in UserRolesOn(store, org, u)
            unrelated == DirectEdge(org, u, r) \notin store
                         /\ OtherGrants(store, org, g, u, r) = {}
        IN  /\ (last.op = "add_group_users" /\ last.res = "Ok" /\ u \in last.args[3]
                /\ GrantEdge(org, g, r) \in store) => mine
            /\ (last.op = "add_group_roles" /\ last.res = "Ok" /\ r \in last.args[3]
                /\ MemberEdge(org, g, u) \in store) => mine
            /\ (last.op = "remove_group_users" /\ last.res = "Ok" /\ u \in last.args[3]
                /\ unrelated) => r \notin UserRolesOn(store, org, u)
            /\ (last.op = "remove_group_roles" /\ last.res = "Ok" /\ r \in last.args[3]
                /\ unrelated) => r \notin UserRolesOn(store, org, u)

\* the membership edge is removed from a user the group granted the role to,
\* while another group holds a grant of the role the user is no member of
C12_Witness ==
    /\ last.op = "remove_group_users"
    /\ last.res = "Ok"
    /\ last.args[3] = {"alice@example.com"}
    /\ "dev" \in UserRolesOn(last.pre, "default", "alice@example.com")
    /\ MemberEdge("default", "eng", "alice@example.com") \in last.pre
    /\ GrantEdge("default", "eng", "dev") \in store
    /\ GrantEdge("default", "qa", "dev") \in store
    /\ "dev" \notin UserRolesOn(store, "default", "alice@example.com")

\* both edges added, the second one twice
C12_WitnessAdded ==
    /\ last.op = "add_group_roles"
    /\ last.res = "Ok"
    /\ last.args[3] = {"dev"}
    /\ GrantEdge("default", "eng", "dev") \in last.pre
    /\ MemberEdge("default", "eng", "alice@example.com") \in store
    /\ DirectEdge("default", "alice@example.com", "dev") \notin store
    /\ OtherGrants(store, "default", "eng", "alice@example.com", "dev") = {}
    /\ "dev" \in UserRolesOn(store, "default", "alice@example.com")

\* what is left of s after the prefix p
After(s, p) == SubSeq(s, Len(p) + 1, Len(s))

\* the role names of org the store gives u directly
DirectRoleNames(st, org, u) ==
    { After(t.object, "role:" \o org \o "_") :
        t \in { x \in st : /\ x.user = "user:" \o u
                           /\ x.relation = "assigned"
                           /\ starts_with(x.object, "role:" \o org \o "_") } }

\* the groups of org the store makes u a member of, as objects
GroupObjectsOf(st, org, u) ==
    { t.object :
        t \in { x \in st : /\ x.user = "user:" \o u
                           /\ x.relation = "member"
                           /\ starts_with(x.object, "group:" \o org \o "_") } }

\* the role names of org the store grants to a group u is a member of
GroupRoleNames(st, org, u) ==
    { After(t.object, "role:" \o org \o "_") :
        t \in { x \in st : /\ x.user \in GroupObjectsOf(st, org, u)
                           /\ x.relation = "grp_assigned"
                           /\ starts_with(x.object, "role:" \o org \o "_") } }

StrictlyAscending(q) == \A i \in 1..(Len(q) - 1) : str_lt(q[i], q[i + 1])

\* C13: on every store content a successful get_user_roles(org, u) returns the
\* sorted, duplicate-free list of exactly the role names n with
\* (user:u, assigned, role:<org>_n) in the store, or with
\* (user:u, member, group:<org>_g) and (group:<org>_g, grp_assigned,
\* role:<org>_n) in the store for some g.
C13_UserRolesExact ==
    (last.op = "get_user_roles" /\ last.res = "Ok") =>
        /\ Range(last.val) = DirectRoleNames(store, last.args[1], last.args[2])
                                \cup GroupRoleNames(store, last.args[1], last.args[2])
        /\ StrictlyAscending(last.val)

\* a role held directly and through a group, one held through two groups, an
\* upper-case name, and tuples of another org and another user in the store
C13_Witness ==
    /\ last.op = "get_user_roles"
    /\ last.res = "Ok"
    /\ store = RoleQueryTuples
    /\ last.val = <<"Dev", "dev", "ops">>

---------------------------------------------------------------------------
(* Properties of role permissions *)

RoleHasTuples(st, org, r) == { t \in st : t.user = "role:" \o org \o "_" \o r \o "#has" }

\* C14: granting then reading round-trips.  When add_role_permissions(org, r,
\* [{object: "T:E", permission: P}]) has succeeded on a created role that held
\* no grant, get_role_permissions(org, r, T) returns exactly the one entry
\* {object: "T:E", permission: P}, for E = _all_<org> and for concrete ids.
C14_GrantReadRoundTrip ==
    (/\ last.op = "add_role_permissions"
     /\ last.res = "Ok"
     /\ Len(last.args[3]) = 1
     /\ HasColon(last.args[3][1].object)
     /\ RoleHasTuples(last.pre, last.args[1], last.args[2]) = {}
     /\ [user |-> "org:" \o last.args[1], relation |-> "owningOrg",
         object |-> "role:" \o last.args[1] \o "_" \o last.args[2]] \in store)
    => get_role_permissions(store, last.args[1], last.args[2],
                            TypePrefix(last.args[3][1].object), FALSE).val
         = << last.args[3][1] >>

AssignedTuples(st, org, r) ==
    { t \in st : t.relation = "assigned" /\ t.object = "role:" \o org \o "_" \o r }

\* C15: for every set U of emails and a role no user is assigned to, a
\* successful add_role_users(org, role, U) followed by a successful
\* remove_role_users(org, role, U) leaves get_role_users(org, role) empty and
\* the store equal to what it was before the add.
C15_AddRemoveUsersRoundTrip ==
    (/\ prev.op = "add_role_users"
     /\ prev.res = "Ok"
     /\ last.op = "remove_role_users"
     /\ last.res = "Ok"
     /\ last.args = prev.args
     /\ AssignedTuples(prev.pre, prev.args[1], prev.args[2]) = {})
    => /\ store = prev.pre
       /\ get_role_users(store, last.args[1], last.args[2], FALSE).val = <<>>

\* two users assigned and unassigned, on a store holding other tuples
C15_Witness ==
    /\ prev.op = "add_role_users"
    /\ prev.res = "Ok"
    /\ last.op = "remove_role_users"
    /\ last.res = "Ok"
    /\ last.args = prev.args
    /\ prev.args[3] = RoleUserEmails
    /\ prev.pre = RoleContextTuples
    /\ Cardinality(AssignedTuples(last.pre, "default", "dev")) = 2
    /\ store = prev.pre

---------------------------------------------------------------------------
(* Properties of create_role and create_group *)

ContainsIgnoringCase(q, n) == \E i \in 1..Len(q) : to_lowercase(q[i]) = to_lowercase(n)

\* the call's listing read succeeded
ListingRead(op) == op.calls # <<>> /\ op.calls[1].kind = "read" /\ op.calls[1].resp = "ok"

\* the call made one write request after its listing read, carrying the one tuple
WroteExactly(op, tuple) ==
    /\ Len(op.calls) = 2
    /\ op.calls[2].kind = "write"
    /\ op.calls[2].writes = <<tuple>>
    /\ op.calls[2].deletes = <<>>

\* C16: create_role(org, n) returns DuplicateEntry and writes nothing whenever
\* list_roles(org) holds a name equal to n ignoring case; otherwise, for a
\* non-system name, it writes exactly the one tuple (org:<org>, owningOrg,
\* role:<org>_<n>), after which list_roles(org) contains n.  Likewise
\* create_group with list_groups and group:<org>_<n>.
C16_CreateRejectsDuplicates ==
    /\ (last.op = "create_role" /\ ListingRead(last)) =>
            LET org == last.args[1]
                n == last.args[2]
            IN  IF ContainsIgnoringCase(list_roles(last.pre, org, FALSE).val, n)
                THEN last.res = "DuplicateEntry" /\ WriteCalls(last) = {}
                ELSE ~IsSystemName(n) =>
                        /\ WroteExactly(last, [user |-> "org:" \o org, relation |-> "owningOrg",
                                               object |-> "role:" \o org \o "_" \o n])
                        /\ last.res = "Ok" =>
                                n \in Range(list_roles(store, org, FALSE).val)
    /\ (last.op = "create_group" /\ ListingRead(last)) =>
            LET org == last.args[1]
                n == last.args[2]
            IN  IF ContainsIgnoringCase(list_groups(last.pre, org, FALSE).val, n)
                THEN last.res = "DuplicateEntry" /\ WriteCalls(last) = {}
                ELSE /\ WroteExactly(last, [user |-> "org:" \o org, relation |-> "owningOrg",
                                            object |-> "group:" \o org \o "_" \o n])
                     /\ last.res = "Ok" =>
                             n \in Range(list_groups(store, org, FALSE).val)

\* "dev" is refused because "Dev" exists
C16_Witness ==
    /\ last.op = "create_role"
    /\ last.args[2] = "dev"
    /\ list_roles(last.pre, "default", FALSE).val = <<"Dev">>
    /\ last.res = "DuplicateEntry"
    /\ store = last.pre

\* "eng" is refused because a member tuple names the group "ENG"
C16_WitnessGroup ==
    /\ last.op = "create_group"
    /\ last.args[2] = "eng"
    /\ list_groups(last.pre, "default", FALSE).val = <<"ENG">>
    /\ last.res = "DuplicateEntry"

\* a role is created and listed, next to the role of another org and the
\* ownership tuple of a system role
C16_WitnessCreated ==
    /\ last.op = "create_role"
    /\ last.args[2] = "dev"
    /\ last.res = "Ok"
    /\ TupleKey("org:default", "owningOrg", "role:default_admin") \in last.pre
    /\ TupleKey("org:o2", "owningOrg", "role:o2_dev") \in last.pre
    /\ list_roles(store, "default", FALSE).val = <<"dev">>

---------------------------------------------------------------------------
(* Properties of get_group *)

\* the store holds a tuple whose object or whose subject is the group object
Mentioned(st, obj) == \E t \in st : t.object = obj \/ t.user = obj

GroupMembers(st, obj) ==
    { After(t.user, "user:") :
        t \in { x \in st : x.object = obj /\ x.relation = "member"
                           /\ starts_with(x.user, "user:") } }

GroupGrants(st, org, obj) ==
    { After(t.object, "role:" \o org \o "_") :
        t \in { x \in st : x.user = obj /\ x.relation = "grp_assigned"
                           /\ starts_with(x.object, "role:" \o org \o "_") } }

C17_WitnessNotFound ==
    /\ last.op = "get_group"
    /\ last.res = "GroupNotFound"
    /\ last.args[2] = "Eng"
    /\ Mentioned(store, "group:default_eng")

\* a group with a member and a role
C17_WitnessFull ==
    /\ last.op = "get_group"
    /\ last.res = "Ok"
    /\ last.val.users = <<"alice@example.com">>
    /\ last.val.roles = <<"dev">>

---------------------------------------------------------------------------
(* Properties of list_objects_for_user *)

\* the caller is not restricted to a list: authorization is off, the role is
\* root in any letter case, or listing is not limited to permitted objects
Unrestricted ==
    \/ ~enabled
    \/ ArgRole \in RootSpellings
    \/ ~list_only_permitted

\* the positions of the backend's objects that belong to the org and type
HitsOf(objects, org_id, object_type) ==
    LET pre == "resource:" \o org_id \o "_" \o object_type \o "_"
    IN  { i \in 1..Len(objects) :
            /\ Len(objects[i]) >= Len(pre)
            /\ SubSeq(objects[i], 1, Len(pre)) = pre }

\* ids are the objects of the org and type, in the backend's order, each
\* without its "resource:<org>_<type>_" prefix
BareIdsOf(ids, objects, org_id, object_type) ==
    LET pre == "resource:" \o org_id \o "_" \o object_type \o "_"
        hits == HitsOf(objects, org_id, object_type)
    IN  /\ Len(ids) = Cardinality(hits)
        /\ \A i \in hits :
             pre \o ids[Cardinality({ j \in hits : j <= i })] = objects[i]

\* C18: list_objects_for_user returns None, with no gateway call, exactly when
\* authorization is disabled, the role is root ignoring case, or
\* list_only_permitted is false; otherwise it makes one list-objects call
\* (sent to the backend whenever the store id is known) and returns Some(ids)
\* with the bare entity ids of the returned objects of the requested org and
\* type when the call succeeds, and an error, never None, when it fails.
C18_ListObjectsNoneIffUnrestricted ==
    last.op = "list_objects_for_user" =>
        /\ (last.res = "Ok" /\ last.val = None) <=> Unrestricted
        /\ Unrestricted => last.calls = <<>>
        /\ ~Unrestricted =>
            /\ Len(last.calls) = 1
            /\ last.calls[1].kind = "list_objects"
            /\ last.calls[1].user = "user:" \o last.args[2]
            /\ last.calls[1].sent <=> store_id # ""
            /\ last.calls[1].resp = "ok" =>
                /\ last.res = "Ok"
                /\ Len(last.val) = 1
                /\ BareIdsOf(last.val[1], last.calls[1].objects,
                             last.args[1], last.args[4])
            /\ last.calls[1].resp # "ok" => last.res = "Err"

\* a restricted caller got the ids of its org's objects of the asked type
C18_Witness ==
    /\ last.op = "list_objects_for_user"
    /\ ~Unrestricted
    /\ last.calls # <<>>
    /\ last.calls[1].sent
    /\ Len(last.calls[1].objects) = 6
    /\ last.res = "Ok"
    /\ last.val = Some(<<"app", "a_b", "">>)

C18_WitnessNone ==
    /\ last.op = "list_objects_for_user"
    /\ enabled
    /\ list_only_permitted
    /\ last.args[5] = "Root"
    /\ last.val = None

C18_WitnessError ==
    /\ last.op = "list_objects_for_user"
    /\ ~Unrestricted
    /\ last.calls # <<>>
    /\ last.calls[1].sent
    /\ last.res = "Err"

---------------------------------------------------------------------------
(* Properties of bootstrap *)

CallsOfKind(calls, kind) == { i \in 1..Len(calls) : calls[i].kind = kind }

\* the run created the store: a store-creation request was answered with a store
RunCreatedStore(calls) ==
    \E i \in CallsOfKind(calls, "create_store") : calls[i].resp = "ok"

\* C19: a bootstrap run sends tuple writes only after it has itself created
\* the store, and then only the initial tuples; a run that found the store by
\* name sends no tuple write; and no run changes the tuples of a store that
\* existed before it.
C19_BootstrapSeedsOnlyNewStore ==
    [][ last'.op = "new" =>
          /\ \A i \in CallsOfKind(last'.calls, "write") :
                /\ \E j \in CallsOfKind(last'.calls, "create_store") :
                      j < i /\ last'.calls[j].resp = "ok"
                /\ Range(last'.calls[i].writes) \subseteq Range(get_initial_tuples)
                /\ last'.calls[i].deletes = <<>>
          /\ ~RunCreatedStore(last'.calls) => CallsOfKind(last'.calls, "write") = {}
          /\ \A i \in 1..Len(stores) :
                /\ stores'[i].id = stores[i].id
                /\ stores'[i].tuples = stores[i].tuples ]_vars

\* a run found the store in use by its name and adopted it with its tuples
C19_Witness ==
    /\ last.op = "new"
    /\ last.args[1] = ""
    /\ last.res = "Ok"
    /\ ~RunCreatedStore(last.calls)
    /\ store_id # ""
    /\ store = LiveTuples
    /\ CallsOfKind(last.calls, "write") = {}

\* a run created the store and seeded it, one chunk failing
C19_WitnessSeeded ==
    /\ last.op = "new"
    /\ last.res = "Ok"
    /\ RunCreatedStore(last.calls)
    /\ Cardinality(CallsOfKind(last.calls, "write")) = 2
    /\ Cardinality(store) = 50

\* C20: bootstrap runs never leave two stores with the configured name: a
\* store is created only when the backend holds none of that name.
C20_NoTwoStoresSameName ==
    Cardinality({ i \in 1..Len(stores) : stores[i].name = StoreName }) <= 1

\* the backend's record of the store with id sid, in a set of at most one
StoreWithId(sid) == { stores[i] : i \in { j \in 1..Len(stores) : stores[j].id = sid } }

\* C21: a bootstrap run writes the default authorization model exactly when its
\* query for the store's latest model succeeded and found none; and after
\* every successful bootstrap the cached store id is non-empty and names a
\* store of the backend whose latest model is the cached model id.
C21_ModelWrittenIffAbsent ==
    (last.op = "new" /\ last.args[1] = "") =>
        /\ CallsOfKind(last.calls, "write_model") # {}
             <=> \E i \in CallsOfKind(last.calls, "get_models") :
                    last.calls[i].resp = "ok" /\ last.calls[i].model_id = None
        /\ Cardinality(CallsOfKind(last.calls, "write_model")) <= 1
        /\ last.res = "Ok" =>
             /\ store_id # ""
             /\ model_id # None
             /\ StoreWithId(store_id) # {}
             /\ \A s \in StoreWithId(store_id) : s.model = model_id

\* a run adopted a store that had a model and cached that model's id
C21_Witness ==
    /\ last.op = "new"
    /\ last.args[1] = ""
    /\ last.res = "Ok"
    /\ ~RunCreatedStore(last.calls)
    /\ CallsOfKind(last.calls, "write_model") = {}
    /\ model_id = Some(ModelId(store_id))

\* a run created the store, found no model and wrote one
C21_WitnessWritten ==
    /\ last.op = "new"
    /\ last.res = "Ok"
    /\ RunCreatedStore(last.calls)
    /\ CallsOfKind(last.calls, "write_model") # {}
    /\ model_id # None

\* the tuple-write calls of a run, in the order they were made
WriteCalls19(calls) == SelectSeq(calls, LAMBDA c : c.kind = "write")

RECURSIVE ConcatWrites(_)
ConcatWrites(ws) ==
    IF ws = <<>> THEN <<>> ELSE Head(ws).writes \o ConcatWrites(Tail(ws))

\* C22: a bootstrap run that created the store and got past the model step
\* sends the initial tuples in chunks of at most BATCH_SIZE whose concatenation
\* is the whole list in order, so every tuple is in exactly one chunk; every
\* chunk is sent whether or not an earlier one failed, the run returns
\* success, and the new store holds the tuples of the chunks that succeeded.
C22_SeedingChunkedBestEffort ==
    (last.op = "new" /\ RunCreatedStore(last.calls)
       /\ \A i \in CallsOfKind(last.calls, "get_models") \cup
                   CallsOfKind(last.calls, "write_model") : last.calls[i].resp = "ok") =>
        LET ws == WriteCalls19(last.calls)
        IN  /\ last.res = "Ok"
            /\ ConcatWrites(ws) = get_initial_tuples
            /\ \A i \in 1..Len(ws) :
                  /\ Len(ws[i].writes) >= 1
                  /\ Len(ws[i].writes) <= BATCH_SIZE
                  /\ ws[i].deletes = <<>>
                  /\ ws[i].sent
            /\ \A i \in 1..(Len(ws) - 1) : Len(ws[i].writes) = BATCH_SIZE
            /\ store = UNION { Range(ws[i].writes) :
                                 i \in { j \in 1..Len(ws) : ws[j].resp = "ok" } }

\* the first chunk failed, the second was still sent and stored
C22_Witness ==
    /\ last.op = "new"
    /\ last.res = "Ok"
    /\ RunCreatedStore(last.calls)
    /\ Len(WriteCalls19(last.calls)) = 2
    /\ WriteCalls19(last.calls)[1].resp # "ok"
    /\ WriteCalls19(last.calls)[2].resp = "ok"
    /\ Cardinality(store) = Len(get_initial_tuples) - BATCH_SIZE

---------------------------------------------------------------------------
(* Properties of the Tuple Store Gateway *)

GatewayOps ==
    { "check", "write", "read", "read_under_writes", "list_objects",
      "write_authorization_model", "get_latest_model_id" }

\* C23: with an empty cached store id, each of check, write, read,
\* list_objects, write_authorization_model and get_latest_model_id returns
\* StoreNotFound and sends no request.
C23_NoStoreIdNoRequest ==
    (last.op \in GatewayOps /\ store_id = "") =>
        /\ last.res = "StoreNotFound"
        /\ last.calls = <<>>
        /\ store = last.pre

C23_Witness ==
    /\ last.op = "check"
    /\ store_id = ""
    /\ last.res = "StoreNotFound"
    /\ last.calls = <<>>

C23_WitnessWrite ==
    /\ last.op = "write"
    /\ store_id = ""
    /\ last.args[1] # <<>>
    /\ last.res = "StoreNotFound"

\* C24: a write with an empty write list and an empty delete list sends no
\* request and returns success, through OpenFGAClient::write as through
\* update_tuples.
C24_EmptyWriteSendsNothing ==
    (last.op \in {"write", "update_tuples"} /\ store_id # ""
       /\ Len(last.args) = 2 /\ last.args[1] = <<>> /\ last.args[2] = <<>>) =>
        /\ last.res = "Ok"
        /\ last.calls = <<>>

RECURSIVE ConcatPages(_)
ConcatPages(pages) ==
    IF pages = <<>> THEN <<>> ELSE Head(pages).tuples \o ConcatPages(Tail(pages))

\* a filter read applies in memory: it is given and names no object
AppliedInMemory(filter) == filter # None /\ filter[1].object = None

\* C25: read sends one request per page the backend serves, the first without
\* token and each later one with the token of the page before it, and stops at
\* the page whose token is absent or empty; it returns the pages' tuples
\* concatenated in page order, duplicates kept (after the in-memory filter,
\* when the filter names no object); a request that fails ends the read with
\* an error and no tuples.
C25_ReadConcatenatesPages ==
    (last.op = "read_under_writes" /\ store_id # "") =>
        LET filter == last.args[1]
            pages == last.args[2]
            failAt == last.args[3]
            n == IF failAt \in 1..Len(pages) THEN failAt ELSE Len(pages)
        IN  /\ Len(last.calls) = n
            /\ \A k \in 1..n :
                  /\ last.calls[k].sent
                  /\ last.calls[k].continuation_token =
                        IF k = 1 THEN None ELSE pages[k - 1].continuation_token
                  /\ last.calls[k].filter = IF AppliedInMemory(filter) THEN None ELSE filter
            /\ failAt \in 1..Len(pages) => (last.res = "OpenFGA" /\ last.val = <<>>)
            /\ failAt \notin 1..Len(pages) =>
                  /\ last.res = "Ok"
                  /\ ~AppliedInMemory(filter) => last.val = ConcatPages(pages)
                  /\ AppliedInMemory(filter) =>
                        last.val = SelectSeq(ConcatPages(pages),
                                             LAMBDA t : /\ (filter[1].user = None
                                                             \/ t.user = filter[1].user[1])
                                                        /\ (filter[1].relation = None
                                                             \/ t.relation = filter[1].relation[1]))

\* three pages, a tuple on two of them, the last page with an empty token:
\* the tuple is returned twice
C25_Witness ==
    /\ last.op = "read_under_writes"
    /\ last.res = "Ok"
    /\ last.args[1] = None
    /\ Len(last.args[2]) = 3
    /\ last.args[2][3].continuation_token = Some("")
    /\ Len(last.calls) = 3
    /\ Len(last.val) = 4
    /\ Cardinality(Range(last.val)) = 2

\* the second of three requests failed
C25_WitnessFailure ==
    /\ last.op = "read_under_writes"
    /\ last.res = "OpenFGA"
    /\ Len(last.args[2]) = 3
    /\ Len(last.calls) = 2
    /\ last.val = <<>>

\* what an equality filter on the given fields selects from a store
EqualityFiltered(st, filter) ==
    { t \in st :
        /\ (filter.user = None \/ t.user = filter.user[1])
        /\ (filter.relation = None \/ t.relation = filter.relation[1])
        /\ (filter.object = None \/ t.object = filter.object[1]) }

RECURSIVE ConcatCalls(_)
ConcatCalls(calls) ==
    IF calls = <<>> THEN <<>> ELSE Head(calls).tuples \o ConcatCalls(Tail(calls))

\* C26: on a store that does not change during the read, read(filter) with a
\* filter that omits the object sends its requests without filter and returns
\* exactly the tuples of the store whose user and relation equal those the
\* filter gives, each once; a filter that carries an object is sent unchanged
\* with every request and the pages come back as served, with no filtering in
\* memory.
C26_MemoryFilterIsEqualityFilter ==
    (last.op = "read" /\ store_id # "" /\ last.res = "Ok") =>
        LET filter == last.args[1]
        IN  /\ last.calls # <<>>
            /\ AppliedInMemory(filter) =>
                  /\ \A k \in 1..Len(last.calls) : last.calls[k].filter = None
                  /\ Range(ConcatCalls(last.calls)) = last.pre
                  /\ Range(last.val) = EqualityFiltered(last.pre, filter[1])
                  /\ Len(last.val) = Cardinality(EqualityFiltered(last.pre, filter[1]))
            /\ ~AppliedInMemory(filter) =>
                  /\ \A k \in 1..Len(last.calls) : last.calls[k].filter = filter
                  /\ last.val = ConcatCalls(last.calls)
                  /\ filter # None =>
                        Range(last.val) = EqualityFiltered(last.pre, filter[1])
                  /\ filter = None => Range(last.val) = last.pre

\* a relation-only filter on the full store: two pages read without filter,
\* two of the three tuples returned
C26_Witness ==
    /\ last.op = "read"
    /\ last.res = "Ok"
    /\ last.args[1] = Some(TupleKeyFilter(None, Some("assigned"), None))
    /\ last.pre = GatewayTuples
    /\ Len(last.calls) = 2
    /\ Len(last.val) = 2

\* a filter with an object went to the backend as it was
C26_WitnessForwarded ==
    /\ last.op = "read"
    /\ last.res = "Ok"
    /\ last.args[1] = Some(TupleKeyFilter(None, None, Some("role:default_dev")))
    /\ last.pre = GatewayTuples
    /\ last.calls[1].filter = last.args[1]
    /\ Len(last.val) = 2

---------------------------------------------------------------------------
(* Properties of the conversions *)

\* C27: from_method is defined on every method and list flag and ignores the
\* method's letter case: GET gives AllowList with the list flag and AllowGet
\* without, POST AllowPost, PUT and PATCH AllowPut, DELETE AllowDelete, every
\* other method AllowGet whatever the flag; to_relation maps AllowList,
\* AllowGet, AllowPost, AllowPut, AllowDelete, AllowAll to can_list, can_read,
\* can_create, can_update, can_delete, admin.
C27_FromMethodTable ==
    /\ last.op = "from_method" =>
         LET method == last.args[1]
             is_list == last.args[2]
         IN  last.val =
               CASE method \in CaseVariants("get") /\ is_list -> "AllowList"
                 [] method \in CaseVariants("get") /\ ~is_list -> "AllowGet"
                 [] method \in CaseVariants("post") -> "AllowPost"
                 [] method \in CaseVariants("put") \cup CaseVariants("patch") -> "AllowPut"
                 [] method \in CaseVariants("delete") -> "AllowDelete"
                 [] OTHER -> "AllowGet"
    /\ last.op = "to_relation" =>
         last.val =
           CASE last.args[1] = "AllowList" -> "can_list"
             [] last.args[1] = "AllowGet" -> "can_read"
             [] last.args[1] = "AllowPost" -> "can_create"
             [] last.args[1] = "AllowPut" -> "can_update"
             [] last.args[1] = "AllowDelete" -> "can_delete"
             [] last.args[1] = "AllowAll" -> "admin"

C27_Witness ==
    /\ last.op = "from_method"
    /\ last.args = <<"pAtCh", TRUE>>
    /\ last.val = "AllowPut"

C27_WitnessOther ==
    /\ last.op = "from_method"
    /\ last.args = <<"HEAD", TRUE>>
    /\ last.val = "AllowGet"

C27_WitnessRelation ==
    /\ last.op = "to_relation"
    /\ last.args = <<"AllowAll">>
    /\ last.val = "admin"

\* the name among the six permissions that equals s ignoring case, if any
SamePermission(s) == { p \in PermissionNames : to_lowercase(p) = to_lowercase(s) }

\* C28: relation_to_permission undoes permission_to_relation on the six
\* permission names and permission_to_relation undoes relation_to_permission
\* on the six ALLOW_ relations; permission_to_relation gives a name written
\* in any letter case the relation of that name; every other input gives
\* ALLOW_GET, and every relation outside the six gives AllowGet.
C28_ConversionsInverse ==
    /\ last.op = "permission_to_relation" =>
         /\ last.val \in AllowRelations
         /\ \A p \in SamePermission(last.args[1]) : relation_to_permission(last.val) = p
         /\ SamePermission(last.args[1]) = {} => last.val = "ALLOW_GET"
    /\ last.op = "relation_to_permission" =>
         /\ last.val \in PermissionNames
         /\ last.args[1] \in AllowRelations => permission_to_relation(last.val) = last.args[1]
         /\ last.args[1] \notin AllowRelations => last.val = "AllowGet"

C28_Witness ==
    /\ last.op = "permission_to_relation"
    /\ last.args[1] = "allowdelete"
    /\ last.val = "ALLOW_DELETE"

C28_WitnessBack ==
    /\ last.op = "relation_to_permission"
    /\ last.args[1] = "ALLOW_PUT"
    /\ last.val = "AllowPut"

C28_WitnessUnknown ==
    /\ last.op = "relation_to_permission"
    /\ last.args[1] = "allow_all"
    /\ last.val = "AllowGet"

---------------------------------------------------------------------------
(* Properties of the Resource Catalog *)

\* the table a lookup went to
TableOf(op) == IF op = "get_resource" THEN RESOURCE_TYPES_inserts ELSE OFGA_MODELS

\* the ancestors of key in a table, following parent links at most n times
RECURSIVE AncestorsOf(_, _, _)
AncestorsOf(table, key, n) ==
    LET r == map_get(table, key)
    IN  IF n = 0 \/ r = None THEN {}
        ELSE IF r[1].parent = None THEN {}
        ELSE {r[1].parent[1]} \cup AncestorsOf(table, r[1].parent[1], n - 1)

\* the parent the hierarchy gives each child
HierarchyParent(key) ==
    CASE key \in {"logs", "metrics", "traces", "metadata", "index"} -> Some("stream")
      [] key = "dashboard" -> Some("dfolder")
      [] key = "alert" -> Some("afolder")
      [] key = "report" -> Some("rfolder")
      [] OTHER -> None

\* C29: every catalog entry found under a key carries that key; its parent,
\* when it has one, is a key of the catalog; top_level is true exactly when
\* the parent is absent; no entry is its own ancestor; and the parents are
\* stream for logs, metrics, traces, metadata and index, dfolder for
\* dashboard, afolder for alert, rfolder for report, none for the others.
C29_CatalogParentsFormForest ==
    (last.op \in {"get_resource", "OFGA_MODELS.get"} /\ last.val # None) =>
        LET r == last.val[1]
            table == TableOf(last.op)
        IN  /\ r.key = last.args[1]
            /\ r.top_level <=> (r.parent = None)
            /\ r.parent # None => map_get(table, r.parent[1]) # None
            /\ r.key \notin AncestorsOf(table, r.key, Len(table))
            /\ r.parent = HierarchyParent(r.key)

C29_Witness ==
    /\ last.op = "get_resource"
    /\ last.args[1] = "metadata"
    /\ last.val # None
    /\ last.val[1].parent = Some("stream")
    /\ ~last.val[1].top_level

C29_WitnessModels ==
    /\ last.op = "OFGA_MODELS.get"
    /\ last.args[1] = "dashboard"
    /\ last.val # None
    /\ last.val[1].parent = Some("dfolder")

C29_WitnessUnknown ==
    /\ last.op = "get_resource"
    /\ last.args[1] = "Logs"
    /\ last.val = None

---------------------------------------------------------------------------
(* Properties of permission input validation *)

\* an entry whose object has no ':' or whose type is not a catalog key
InvalidEntry(e) ==
    \/ ~HasColon(e.object)
    \/ get_resource(TypePrefix(e.object)) = None

\* C30: add_role_permissions and remove_role_permissions given a list with
\* an entry that is malformed or names a type outside the catalog return an
\* error, send no write and leave the store as it was.
C30_InvalidEntryFailsFast ==
    (/\ last.op \in {"add_role_permissions", "remove_role_permissions"}
     /\ \E i \in 1..Len(last.args[3]) : InvalidEntry(last.args[3][i]))
    => (/\ last.res # "Ok"
        /\ \A i \in 1..Len(last.calls) : ~last.calls[i].sent
        /\ store = last.pre)

---------------------------------------------------------------------------
(* Properties of granting and revoking permissions *)

\* the entries of a list that have a ':' in their object, in order
RECURSIVE WellFormedEntries(_)
WellFormedEntries(permissions) ==
    IF permissions = <<>> THEN <<>>
    ELSE IF HasColon(Head(permissions).object)
    THEN <<Head(permissions)>> \o WellFormedEntries(Tail(permissions))
    ELSE WellFormedEntries(Tail(permissions))

\* the object the tuple of an entry has
GrantObject(org_id, e) ==
    IF Len(EntityPart(e.object)) >= 4 /\ SubSeq(EntityPart(e.object), 1, 4) = "_all"
    THEN TypePrefix(e.object) \o ":_all_" \o org_id
    ELSE e.object

\* the tuples a write call of the service carried, writes or deletes
RECURSIVE CarriedTuples(_, _)
CarriedTuples(calls, field) ==
    IF calls = <<>> THEN <<>>
    ELSE (IF Head(calls).kind = "write" THEN Head(calls)[field] ELSE <<>>)
             \o CarriedTuples(Tail(calls), field)

GrantShape(op, field) ==
    LET org_id == op.args[1]
        entries == WellFormedEntries(op.args[3])
        tuples == CarriedTuples(op.calls, field)
    IN  /\ Len(tuples) = Len(entries)
        /\ \A i \in 1..Len(tuples) :
              /\ tuples[i].user = "role:" \o org_id \o "_" \o op.args[2] \o "#has"
              /\ tuples[i].relation \in AllowRelations
              /\ tuples[i].object = GrantObject(org_id, entries[i])

C31_WitnessWildcard ==
    /\ last.op = "add_role_permissions"
    /\ last.res = "Ok"
    /\ last.args[1] = "acme"
    /\ last.args[3][1].object = "logs:_all_default"
    /\ last.calls[1].writes[1] = TupleKey("role:acme_dev#has", "ALLOW_PUT", "logs:_all_acme")
    /\ last.calls[1].writes[1] \in store

---------------------------------------------------------------------------
(* Properties of failing backend requests in administrative operations *)

AdminOps ==
    { "create_role", "delete_role", "create_group", "delete_group",
      "delete_org_tuples", "get_group", "add_role_users", "remove_group_users" }

\* C32: when a backend request of a Role Service, Group Service or Org
\* Lifecycle operation fails, it is the operation's last request, the
\* operation returns its error, and the store is as it was before the call.
C32_FailedRequestEndsOperation ==
    last.op \in AdminOps =>
        \A i \in 1..Len(last.calls) :
            last.calls[i].resp # "ok" =>
                /\ i = Len(last.calls)
                /\ last.res = last.calls[i].resp
                /\ store = last.pre

\* delete_role found the role's tuples with its first read, its second read
\* failed: no delete was sent
C32_Witness ==
    /\ last.op = "delete_role"
    /\ Len(last.calls) = 2
    /\ last.calls[1].resp = "ok" /\ last.calls[1].tuples # <<>>
    /\ last.calls[2].sent /\ last.calls[2].resp = "OpenFGA"
    /\ last.res = "OpenFGA"
    /\ store = last.pre

\* create_group's write failed after its read
C32_WitnessWrite ==
    /\ last.op = "create_group"
    /\ Len(last.calls) = 2
    /\ last.calls[2].kind = "write" /\ last.calls[2].sent
    /\ last.calls[2].resp = "OpenFGA"
    /\ last.res = "OpenFGA"

---------------------------------------------------------------------------
(* Properties of repeated administrative operations *)

RepeatableOps ==
    { "add_role_users", "remove_role_users", "add_role_permissions",
      "remove_role_permissions", "add_group_users", "remove_group_users",
      "add_group_roles", "remove_group_roles", "delete_role", "delete_group",
      "delete_org_tuples" }

\* the call repeats, with the same arguments, a call that succeeded
RepeatsSuccess ==
    /\ last.op \in RepeatableOps
    /\ prev.op = last.op
    /\ prev.args = last.args
    /\ prev.res = "Ok"

AllRequestsAnswered == \A i \in 1..Len(last.calls) : last.calls[i].resp = "ok"

C33_WitnessAdd ==
    /\ RepeatsSuccess
    /\ last.op = "add_role_users"
    /\ Cardinality(last.args[3]) = 2
    /\ last.res = "Ok"
    /\ Len(last.calls) = 1 /\ last.calls[1].sent
    /\ prev.pre # store

---------------------------------------------------------------------------
(* Properties of the cached identifiers *)

\* C34: once the client is constructed, no public gateway operation changes
\* the cached store id or the cached model id.
C34_IdentifiersFixedAfterBootstrap ==
    [][last'.op \in GatewayOps => (store_id' = store_id /\ model_id' = model_id)]_vars

---------------------------------------------------------------------------
(* Properties of concurrent creation *)

\* the names of the objects of a kind ("role", "group") the org owns
OwnedNames(kind, org_id) ==
    { strip_prefix(t.object, kind \o ":" \o org_id \o "_")[1] :
        t \in { u \in store : /\ u.relation = "owningOrg"
                              /\ u.user = "org:" \o org_id
                              /\ starts_with(u.object, kind \o ":" \o org_id \o "_") } }

\* C35: under any interleaving of create_role (create_group) calls, the org
\* has no two roles (groups) whose names are equal ignoring ASCII case, and
\* of the calls whose names collide at most one has succeeded.
C35_NoCaseCollidingNames ==
    /\ \A kind \in {"role", "group"} :
          \A a, b \in OwnedNames(kind, "default") :
              eq_ignore_ascii_case(a, b) => a = b
    /\ \A i, j \in 1..Len(inflight) :
          (/\ i # j
           /\ inflight[i].op = inflight[j].op
           /\ eq_ignore_ascii_case(inflight[i].name, inflight[j].name)
           /\ inflight[i].res = "Ok")
          => inflight[j].res # "Ok"

---------------------------------------------------------------------------
(* Properties of isolation between orgs *)

\* what the queries of an org return on a store when the backend answers:
\* list_groups, get_user_groups, get_user_roles, get_role_users, get_group
OrgView(st, org_id) ==
    [ groups |-> list_groups(st, org_id, FALSE).val,
      user_groups |-> [u \in UserIds |-> get_user_groups(st, org_id, u, FALSE).val],
      user_roles |-> [u \in UserIds |-> get_user_roles(st, org_id, u, 0).val],
      role_users |-> [r \in {"dev", "b_dev"} |-> get_role_users(st, org_id, r, FALSE).val],
      group |-> [g \in {"eng", "b_eng"} |->
                   LET r == get_group(st, org_id, g, 0) IN <<r.res, r.val>>] ]

\* C36: an operation on one org leaves the results of the role and group
\* queries of every other org as they were.
C36_QueriesIsolatedPerOrg ==
    last.op \in {"create_group", "add_group_users", "add_group_roles",
                 "add_role_users", "remove_group_users"}
    => \A org_id \in IsolationOrgIds \ {last.args[1]} :
           OrgView(store, org_id) = OrgView(last.pre, org_id)

---------------------------------------------------------------------------
(* Properties of a user's role over a sequence of role changes *)

OrgRoleRelations == {"admin", "editor", "viewer", "allowed_user"}

\* the role tuples the user of the last call holds on its org
HeldRoleTuples ==
    { t \in store : /\ t.user = "user:" \o last.args[2]
                    /\ t.object = "org:" \o last.args[1]
                    /\ t.relation \in OrgRoleRelations }

\* C37: after add_user_to_org and any number of successful update_user_role
\* calls, each naming as old role the role set before it, the user holds
\* exactly one role tuple on the org, that of the latest role, and the
\* org_context tuple.
C37_ExactlyOneRoleTuple ==
    (last.op \in {"add_user_to_org", "update_user_role"} /\ last.res = "Ok")
    => /\ HeldRoleTuples =
            { TupleKey("user:" \o last.args[2],
                       role_to_fga_relation(last.args[Len(last.args)]),
                       "org:" \o last.args[1]) }
       /\ TupleKey("user:" \o last.args[2], "org_context", "org:" \o last.args[1]) \in store

\* a role change that replaced the tuple of a role changed to before
C37_Witness ==
    /\ last.op = "update_user_role"
    /\ last.res = "Ok"
    /\ Len(last.calls) = 1
    /\ last.calls[1].deletes = <<TupleKey("user:alice@example.com", "editor", "org:default")>>
    /\ last.calls[1].writes = <<TupleKey("user:alice@example.com", "allowed_user", "org:default")>>
    /\ TupleKey("user:alice@example.com", "admin", "org:default") \notin store
    /\ Cardinality(HeldRoleTuples) = 1

\* a role change between two roles of one relation: nothing sent
C37_WitnessSameRelation ==
    /\ last.op = "update_user_role"
    /\ last.res = "Ok"
    /\ last.args[3] = "root" /\ last.args[4] = "admin"
    /\ last.calls = <<>>
    /\ Cardinality(HeldRoleTuples) = 1

---------------------------------------------------------------------------
(* Properties of repeated bootstrap *)

\* the last run created the backend's n-th store and failed after that
CreatedThenFailed(n) ==
    /\ last.op = "new"
    /\ last.res = "Err"
    /\ \E i \in CallsOfKind(last.calls, "create_store") :
          last.calls[i].resp = "ok" /\ last.calls[i].id = StoreId(n)

\* the last run sent initial-tuple chunks to the backend's n-th store
SubmittedInitialTuples(n) ==
    /\ last.op = "new"
    /\ \E i \in CallsOfKind(last.calls, "get_models") : last.calls[i].store = StoreId(n)
    /\ \E i \in CallsOfKind(last.calls, "write") : last.calls[i].sent

\* C38: a store created by a bootstrap run that then failed gets the
\* initial tuples submitted by a later run, bootstrap being run again until
\* it succeeds.
C38_CreatedStoreEventuallySeeded ==
    \A n \in 1..MaxStores : CreatedThenFailed(n) ~> SubmittedInitialTuples(n)

---------------------------------------------------------------------------
(* Properties of the org argument of is_allowed *)

\* the object of the last is_allowed call names a concrete entity
ConcreteEntity ==
    /\ HasColon(last.args[4])
    /\ ~(Len(EntityPart(last.args[4])) >= 4 /\ SubSeq(EntityPart(last.args[4]), 1, 4) = "_all")

\* the call of the last is_allowed made for another org, the backend giving
\* answer b
IsAllowedFor(org_id, b) ==
    is_allowed(org_id, last.args[2], last.args[3], last.args[4], last.args[5], b)

\* C39: for a concrete entity id, is_allowed called for any other org sends
\* the same check tuple and, on the same answer of the backend, returns the
\* same decision.
C39_CheckIndependentOfOrg ==
    (last.op = "is_allowed" /\ ConcreteEntity)
    => \A org_id \in OrgIds, b \in CheckAnswers :
           LET mine == IsAllowedFor(last.args[1], b)
               other == IsAllowedFor(org_id, b)
           IN  /\ other.calls = mine.calls
               /\ other.val = mine.val
               /\ (last.calls # <<>> /\ last.calls[1].resp = b)
                  => (last.calls = other.calls /\ last.val = other.val)

\* a check on a concrete stream for org o2 was sent and allowed
C39_Witness ==
    /\ last.op = "is_allowed"
    /\ last.args[1] = "o2"
    /\ last.args[4] = "logs:my_stream"
    /\ Len(last.calls) = 1
    /\ last.calls[1].sent
    /\ last.calls[1].key.object = "logs:my_stream"
    /\ last.val = TRUE
    /\ IsAllowedFor("default", "allowed").calls = last.calls

=============================================================================
